---- MODULE Spec2Model ----
(***************************************************************************)
(* Typescala: the tree-walking evaluator (interpreter.ts), its scope chain *)
(* (environment.ts) and its value model and native helpers (runtime.ts).   *)
(*                                                                         *)
(* The evaluator is recursive in the source and is modelled by recursive   *)
(* operators of the same names.  Every operator takes the machine `m` (the *)
(* heap of environments, iterators and canvases, the console, the call     *)
(* log, and the completion: a value or a thrown error) and returns the     *)
(* machine after the call.  A thrown Error is m.error # NoError; every     *)
(* caller returns it unchanged, as an exception unwinds the native stack.  *)
(***************************************************************************)
EXTENDS Integers, Sequences, FiniteSets, TLC

VARIABLES
  envs,        \* heap of Environment objects: [parent, values]
  iterators,   \* heap of range iterators: the closure state of createRangeIterator
  canvases,    \* heap of CanvasValue objects: [width, height, pixels]
  console,     \* what print has written with console.log
  methodRegistry, \* the process-wide table: kind -> (name -> function)
  calls,       \* log of the user-closure calls made (observation only)
  value,       \* the value the last operation returned
  error,       \* the message of the Error the last operation threw, or NoError
  program,     \* the Program being run by evaluateProgram
  pc,          \* index of the next statement of program.statements
  last         \* the last host operation and its arguments (observation only)

vars == <<envs, iterators, canvases, console, methodRegistry, calls, value, error, program, pc, last>>

(***************************************************************************)
(* Bounds of the model.                                                    *)
(***************************************************************************)
MaxRange == 3
MaxEnvs == 3
MaxStart == 5
MaxCalls == 3
MaxLoops == 3
MaxDim == 2

(***************************************************************************)
(* Numbers.  A JS number is modelled exactly as a rational n/d in lowest   *)
(* terms with d > 0, or with d = 0 as Infinity (n = 1), -Infinity (n = -1) *)
(* and NaN (n = 0).  Rounding error of doubles is not modelled.            *)
(***************************************************************************)
Abs(x) == IF x < 0 THEN -x ELSE x

Sign(x) == IF x < 0 THEN -1 ELSE IF x > 0 THEN 1 ELSE 0

RECURSIVE GCD(_, _)
GCD(a, b) == IF b = 0 THEN a ELSE GCD(b, a % b)

Rat(n, d) ==
  IF d = 0 THEN [n |-> Sign(n), d |-> 0]
  ELSE LET g == GCD(Abs(n), Abs(d))
           s == Sign(d)
       IN  [n |-> (s * n) \div g, d |-> (s * d) \div g]

Int2Num(i) == [n |-> i, d |-> 1]

NaN == [n |-> 0, d |-> 0]

Infinity == [n |-> 1, d |-> 0]

NumIsNaN(x) == x.d = 0 /\ x.n = 0

NumIsFinite(x) == x.d # 0

NumAdd(x, y) ==
  IF x.d = 0 /\ y.d = 0 THEN (IF x.n = y.n THEN x ELSE NaN)
  ELSE IF x.d = 0 THEN x
  ELSE IF y.d = 0 THEN y
  ELSE Rat(x.n * y.d + y.n * x.d, x.d * y.d)

NumNeg(x) == [n |-> -x.n, d |-> x.d]

NumSub(x, y) == NumAdd(x, NumNeg(y))

NumMul(x, y) == Rat(x.n * y.n, x.d * y.d)

NumDiv(x, y) ==
  LET s == IF y.n < 0 THEN -1 ELSE 1
  IN  Rat(x.n * y.d * s, x.d * Abs(y.n))

NumEq(x, y) == ~NumIsNaN(x) /\ ~NumIsNaN(y) /\ x = y

NumLt(x, y) ==
  /\ ~NumIsNaN(x)
  /\ ~NumIsNaN(y)
  /\ IF x.d = 0 /\ y.d = 0 THEN x.n < y.n ELSE x.n * y.d < y.n * x.d

NumLe(x, y) == NumLt(x, y) \/ NumEq(x, y)

\* Math.floor
NumFloor(x) == IF x.d = 0 THEN x ELSE Int2Num(x.n \div x.d)

\* Math.round: the nearest integer, a half rounding up
NumRound(x) == IF x.d = 0 THEN x ELSE Int2Num((2 * x.n + x.d) \div (2 * x.d))

\* Math.min and Math.max: NaN if either argument is NaN
NumMin(x, y) == IF NumIsNaN(x) \/ NumIsNaN(y) THEN NaN ELSE IF NumLt(y, x) THEN y ELSE x

NumMax(x, y) == IF NumIsNaN(x) \/ NumIsNaN(y) THEN NaN ELSE IF NumLt(x, y) THEN y ELSE x

(***************************************************************************)
(* Values (values.ts, runtime.ts).  The `value` field of a NumberValue, a  *)
(* StringValue and a BooleanValue is named num, str and bool by its type.  *)
(* An iterator and a canvas are references (ref) into the heaps; a user    *)
(* function carries its params, body and the reference of its closure      *)
(* environment.                                                            *)
(***************************************************************************)
NULL_VALUE == [kind |-> "null"]

makeNumber(v) == [kind |-> "number", num |-> v]

makeString(v) == [kind |-> "string", str |-> v]

makeBoolean(v) == [kind |-> "boolean", bool |-> v]

Num(i) == makeNumber(Int2Num(i))

\* impl names the implementation closure handed to the constructor
NativeFunctionValue(impl, name) ==
  [kind |-> "function", native |-> TRUE, impl |-> impl, name |-> name]

UserFunctionValue(params, body, closure) ==
  [kind |-> "function", native |-> FALSE, params |-> params, body |-> body,
   closure |-> closure]

IteratorValue(ref) == [kind |-> "iterator", ref |-> ref]

CanvasValue(ref) == [kind |-> "canvas", ref |-> ref]

\* a truthiness that takes only the positive numbers for true
isTruthy_positive(v) ==
  CASE v.kind = "null" -> FALSE
    [] v.kind = "boolean" -> v.bool
    [] v.kind = "number" -> NumLt(Int2Num(0), v.num)
    [] v.kind = "string" -> Len(v.str) > 0
    [] OTHER -> TRUE

isTruthy(v) ==
  CASE v.kind = "null" -> FALSE
    [] v.kind = "boolean" -> v.bool
    [] v.kind = "number" -> ~NumEq(v.num, Int2Num(0))
    [] v.kind = "string" -> Len(v.str) > 0
    [] v.kind = "function" -> TRUE
    [] v.kind = "iterator" -> TRUE
    [] v.kind = "canvas" -> TRUE

cloneValue(v) ==
  CASE v.kind = "number" -> makeNumber(v.num)
    [] v.kind = "string" -> makeString(v.str)
    [] v.kind = "boolean" -> makeBoolean(v.bool)
    [] v.kind = "null" -> NULL_VALUE
    [] v.kind = "function" -> v
    [] v.kind = "iterator" -> v
    [] v.kind = "canvas" -> v

(***************************************************************************)
(* The machine: completion of an operation.                                *)
(***************************************************************************)
NoError == ""

Return(m, v) == [m EXCEPT !.value = v]

Throw(m, message) == [m EXCEPT !.error = message]

Failed(m) == m.error # NoError

\* the rest K of a function body runs on the machine m that a call or a
\* constructor returned, unless the call threw
Then(m, K(_)) == IF Failed(m) THEN m ELSE K(m)

(***************************************************************************)
(* Environment (environment.ts).  envs[e].parent = NoParent for a scope    *)
(* constructed without a parent.                                           *)
(***************************************************************************)
NoParent == 0

\* new Environment(parent): the new object is the last of the heap
newEnvironment(m, parent) ==
  [m EXCEPT !.envs = Append(@, [parent |-> parent, values |-> <<>>])]

\* the reference of the Environment newEnvironment has just constructed
newest(m) == Len(m.envs)

RECURSIVE assign(_, _, _, _)
RECURSIVE get(_, _, _)

\* a define that overwrites the nearest binding of the name, if there is one
define_nearestBinding(m, e, name, v) ==
  IF Failed(get(m, e, name))
  THEN [m EXCEPT !.envs[e].values = (name :> v) @@ @]
  ELSE assign(m, e, name, v)

define(m, e, name, v) == [m EXCEPT !.envs[e].values = (name :> v) @@ @]

\* an assign that defines an unresolved name in the outermost scope
assign_implicitGlobal(m, e, name, v) ==
  IF name \in DOMAIN m.envs[e].values
  THEN [m EXCEPT !.envs[e].values[name] = v]
  ELSE IF m.envs[e].parent # NoParent
       THEN assign(m, m.envs[e].parent, name, v)
       ELSE [m EXCEPT !.envs[e].values = (name :> v) @@ @]

assign(m, e, name, v) ==
  IF name \in DOMAIN m.envs[e].values
  THEN [m EXCEPT !.envs[e].values[name] = v]
  ELSE IF m.envs[e].parent # NoParent
       THEN assign(m, m.envs[e].parent, name, v)
       ELSE Throw(m, "Undefined variable " \o name)

get(m, e, name) ==
  IF name \in DOMAIN m.envs[e].values
  THEN Return(m, m.envs[e].values[name])
  ELSE IF m.envs[e].parent # NoParent
       THEN get(m, m.envs[e].parent, name)
       ELSE Throw(m, "Undefined variable " \o name)

(***************************************************************************)
(* Arguments of a native: a missing argument is undefined.                 *)
(***************************************************************************)
Undefined == [kind |-> "undefined"]

Arg(args, i) == IF i <= Len(args) THEN args[i] ELSE Undefined

\* value ?? NULL_VALUE
OrNull(v) == IF v = Undefined THEN NULL_VALUE ELSE v

(***************************************************************************)
(* The method registry (runtime.ts).                                       *)
(***************************************************************************)
RegistryKinds == {"number", "string", "boolean", "function", "iterator", "canvas"}

EmptyRegistry == [k \in RegistryKinds |-> <<>>]

\* a registerMethod that removes the entry of a name registered before
registerMethod_toggling(m, kind, name, fn) ==
  IF name \in DOMAIN m.methodRegistry[kind]
  THEN [m EXCEPT !.methodRegistry[kind] =
          [n \in (DOMAIN @) \ {name} |-> @[n]]]
  ELSE [m EXCEPT !.methodRegistry[kind] = (name :> fn) @@ @]

registerMethod(m, kind, name, fn) ==
  [m EXCEPT !.methodRegistry[kind] = (name :> fn) @@ @]

\* a lookup that falls back on the methods of the numbers
lookupMethod_numberFallback(m, v, name) ==
  IF v.kind \in RegistryKinds /\ name \in DOMAIN m.methodRegistry[v.kind]
  THEN m.methodRegistry[v.kind][name]
  ELSE IF name \in DOMAIN m.methodRegistry["number"]
  THEN m.methodRegistry["number"][name]
  ELSE Undefined

\* the function registered, or Undefined
lookupMethod(m, v, name) ==
  IF v.kind \in RegistryKinds /\ name \in DOMAIN m.methodRegistry[v.kind]
  THEN m.methodRegistry[v.kind][name]
  ELSE Undefined

(***************************************************************************)
(* Range iterators (interpreter.ts, createRangeIterator).  The heap entry  *)
(* is the state the returned closure captures: end, inclusive, step and    *)
(* the mutable current.                                                    *)
(***************************************************************************)
\* a range that always steps by +1
createRangeIterator_ascending(m, start, end, inclusive) ==
  Return([m EXCEPT !.iterators = Append(@, [end |-> end, inclusive |-> inclusive,
                                            step |-> 1, current |-> start])],
         IteratorValue(Len(m.iterators) + 1))

createRangeIterator(m, start, end, inclusive) ==
  LET step == IF NumLe(start, end) THEN 1 ELSE -1
      it == [end |-> end, inclusive |-> inclusive, step |-> step, current |-> start]
      m1 == [m EXCEPT !.iterators = Append(@, it)]
  IN  Return(m1, IteratorValue(Len(m1.iterators)))

\* a step that takes every range as inclusive
next_inclusive(m, ref) ==
  LET it == m.iterators[ref]
      finished == IF it.step > 0 THEN NumLt(it.end, it.current)
                  ELSE NumLt(it.current, it.end)
  IN  IF finished
      THEN Return(m, [done |-> TRUE])
      ELSE Return([m EXCEPT !.iterators[ref].current = NumAdd(@, Int2Num(it.step))],
                  [done |-> FALSE, value |-> makeNumber(it.current)])

\* the closure handed to makeIterator: the step is returned as the value
next(m, ref) ==
  LET it == m.iterators[ref]
      finished ==
        IF it.step > 0
        THEN (IF it.inclusive THEN NumLt(it.end, it.current) ELSE NumLe(it.end, it.current))
        ELSE (IF it.inclusive THEN NumLt(it.current, it.end) ELSE NumLe(it.current, it.end))
  IN  IF finished
      THEN Return(m, [done |-> TRUE])
      ELSE Return([m EXCEPT !.iterators[ref].current = NumAdd(@, Int2Num(it.step))],
                  [done |-> FALSE, value |-> makeNumber(it.current)])

(***************************************************************************)
(* Canvases (runtime.ts, makeCanvas; interpreter.ts, the canvas natives).  *)
(* pixels[i + 1] models pixels[i] of the Uint8ClampedArray.                *)
(***************************************************************************)
\* what a Uint8ClampedArray stores for a number: NaN as 0, otherwise the
\* number clamped to [0, 255] and rounded to the nearest integer, a half to even
Uint8Clamp(x) ==
  IF NumIsNaN(x) THEN 0
  ELSE IF NumLe(x, Int2Num(0)) THEN 0
  ELSE IF NumLe(Int2Num(255), x) THEN 255
  ELSE LET f == x.n \div x.d
           twice == NumMul(Int2Num(2), NumSub(x, Int2Num(f)))
       IN  IF NumLt(twice, Int2Num(1)) THEN f
           ELSE IF NumLt(Int2Num(1), twice) THEN f + 1
           ELSE IF f % 2 = 0 THEN f ELSE f + 1

\* pixels[index] = x: a write at an index that is no element is ignored
setByte(pixels, index, x) ==
  IF index.d = 1 /\ index.n >= 0 /\ index.n < Len(pixels)
  THEN [pixels EXCEPT ![index.n + 1] = Uint8Clamp(x)]
  ELSE pixels

\* a makeCanvas that leaves the alpha bytes of the new buffer at zero
makeCanvas_transparent(m, width, height) ==
  IF ~NumIsFinite(width) \/ ~NumIsFinite(height)
  THEN Throw(m, "canvas expects finite width and height")
  ELSE IF NumFloor(width).n <= 0 \/ NumFloor(height).n <= 0
  THEN Throw(m, "canvas width and height must be positive integers")
  ELSE Return([m EXCEPT !.canvases =
                 Append(@, [width |-> NumFloor(width).n, height |-> NumFloor(height).n,
                            pixels |-> [i \in 1..(NumFloor(width).n * NumFloor(height).n * 4)
                                          |-> 0]])],
              CanvasValue(Len(m.canvases) + 1))

\* a makeCanvas that rounds its dimensions
makeCanvas_rounded(m, width, height) ==
  IF ~NumIsFinite(width) \/ ~NumIsFinite(height)
  THEN Throw(m, "canvas expects finite width and height")
  ELSE IF NumRound(width).n <= 0 \/ NumRound(height).n <= 0
  THEN Throw(m, "canvas width and height must be positive integers")
  ELSE Return([m EXCEPT !.canvases =
                 Append(@, [width |-> NumRound(width).n, height |-> NumRound(height).n,
                            pixels |-> [i \in 1..(NumRound(width).n * NumRound(height).n * 4)
                                          |-> IF i % 4 = 0 THEN 255 ELSE 0]])],
              CanvasValue(Len(m.canvases) + 1))

makeCanvas(m, width, height) ==
  IF ~NumIsFinite(width) \/ ~NumIsFinite(height)
  THEN Throw(m, "canvas expects finite width and height")
  ELSE LET w == NumFloor(width).n
           h == NumFloor(height).n
       IN  IF w <= 0 \/ h <= 0
           THEN Throw(m, "canvas width and height must be positive integers")
           ELSE LET pixels == [i \in 1..(w * h * 4) |-> IF i % 4 = 0 THEN 255 ELSE 0]
                    m1 == [m EXCEPT !.canvases =
                             Append(@, [width |-> w, height |-> h, pixels |-> pixels])]
                IN  Return(m1, CanvasValue(Len(m1.canvases)))

\* a channel that drops the fraction instead of rounding
channel_truncated(v) == NumMax(Int2Num(0), NumMin(Int2Num(255), NumFloor(v)))

\* Math.max(0, Math.min(255, Math.round(v)))
channel(v) == NumMax(Int2Num(0), NumMin(Int2Num(255), NumRound(v)))

(***************************************************************************)
(* The AST (ast.ts).                                                       *)
(***************************************************************************)
NumberLiteral(i) == [type |-> "number", num |-> Int2Num(i)]

StringLiteral(t) == [type |-> "string", str |-> t]

BooleanLiteral(b) == [type |-> "boolean", bool |-> b]

NullLiteral == [type |-> "null"]

Identifier(name) == [type |-> "identifier", name |-> name]

BlockExpression(statements) ==
  [type |-> "block", statements |-> statements, asFunction |-> FALSE]

FunctionExpression(params, statements) ==
  [type |-> "function", params |-> params,
   body |-> [type |-> "block", statements |-> statements, asFunction |-> TRUE]]

BlockFunctionExpression(statements) ==
  [type |-> "blockFunction",
   block |-> [type |-> "block", statements |-> statements, asFunction |-> TRUE]]

CallExpression(callee, args) == [type |-> "call", callee |-> callee, args |-> args]

IfExpression(condition, thenStatements) ==
  [type |-> "if", condition |-> condition, thenBranch |-> BlockExpression(thenStatements)]

IfElseExpression(condition, thenStatements, elseStatements) ==
  [type |-> "if", condition |-> condition, thenBranch |-> BlockExpression(thenStatements),
   elseBranch |-> BlockExpression(elseStatements)]

InfixExpression(left, operator, right) ==
  [type |-> "infix", operator |-> operator, left |-> left, right |-> right]

LetStatement(name, v) == [type |-> "let", name |-> name, value |-> v]

AssignmentStatement(name, v) == [type |-> "assignment", name |-> name, value |-> v]

ForStatement(iterator, iterable, statements) ==
  [type |-> "for", iterator |-> iterator, iterable |-> iterable,
   body |-> BlockExpression(statements)]

ExpressionStatement(expression) == [type |-> "expression", expression |-> expression]

(***************************************************************************)
(* The natives that call nothing back (interpreter.ts,                     *)
(* createGlobalEnvironment).  self is the receiver, or Undefined.          *)
(***************************************************************************)
\* the arithmetic and comparison methods of a number receiver
numberMethod(m, impl, args, self) ==
  LET other == OrNull(Arg(args, 1))
      name == SubSeq(impl, 8, Len(impl))
      receiver == IF name \in {"rangeExclusive", "rangeInclusive"}
                  THEN " expects a number receiver"
                  ELSE " expects a number as the receiver"
  IN  IF self.kind # "number" THEN Throw(m, name \o receiver)
      ELSE IF other.kind # "number" THEN Throw(m, name \o " expects a number argument")
      ELSE LET l == self.num
               r == other.num
           IN  CASE impl = "number.plus" -> Return(m, makeNumber(NumAdd(l, r)))
                 [] impl = "number.minus" -> Return(m, makeNumber(NumSub(l, r)))
                 [] impl = "number.times" -> Return(m, makeNumber(NumMul(l, r)))
                 [] impl = "number.dividedBy" -> Return(m, makeNumber(NumDiv(l, r)))
                 [] impl = "number.rangeExclusive" -> createRangeIterator(m, l, r, FALSE)
                 [] impl = "number.rangeInclusive" -> createRangeIterator(m, l, r, TRUE)
                 [] impl = "number.equals" -> Return(m, makeBoolean(NumEq(l, r)))
                 [] impl = "number.lessThan" -> Return(m, makeBoolean(NumLt(l, r)))
                 [] impl = "number.lessThanOrEqual" -> Return(m, makeBoolean(NumLe(l, r)))
                 [] impl = "number.greaterThan" -> Return(m, makeBoolean(NumLt(r, l)))
                 [] impl = "number.greaterThanOrEqual" -> Return(m, makeBoolean(NumLe(r, l)))

\* String(value) of a number: only the integers are given their digits
RECURSIVE Digits(_)
Digits(i) ==
  IF i < 10 THEN SubSeq("0123456789", i + 1, i + 1)
  ELSE Digits(i \div 10) \o SubSeq("0123456789", (i % 10) + 1, (i % 10) + 1)

NumberToString(x) ==
  IF NumIsNaN(x) THEN "NaN"
  ELSE IF x.d = 0 THEN (IF x.n > 0 THEN "Infinity" ELSE "-Infinity")
  ELSE IF x.d = 1 THEN (IF x.n < 0 THEN "-" \o Digits(-x.n) ELSE Digits(x.n))
  ELSE "(fraction)"

stringPlus(m, args, self) ==
  LET other == Arg(args, 1)
  IN  IF self = Undefined \/ self.kind # "string"
      THEN Throw(m, "plus expects a string receiver")
      ELSE LET v == CASE other.kind = "string" -> other.str
                      [] other.kind = "number" -> NumberToString(other.num)
                      [] other.kind = "boolean" -> (IF other.bool THEN "true" ELSE "false")
                      [] OTHER -> ""
           IN  Return(m, makeString(self.str \o v))

booleanMethod(m, impl, args, self) ==
  LET other == OrNull(Arg(args, 1))
      name == SubSeq(impl, 9, Len(impl))
  IN  IF self.kind # "boolean" THEN Throw(m, name \o " expects a boolean receiver")
      ELSE IF other.kind # "boolean" THEN Throw(m, name \o " expects a boolean argument")
      ELSE CASE impl = "boolean.and" -> Return(m, makeBoolean(self.bool /\ other.bool))
             [] impl = "boolean.or" -> Return(m, makeBoolean(self.bool \/ other.bool))
             [] impl = "boolean.equals" -> Return(m, makeBoolean(self.bool = other.bool))

print(m, args) ==
  LET v == Arg(args, 1)
      line == IF v.kind \in {"string", "number", "boolean"} THEN v ELSE makeString("null")
  IN  Return([m EXCEPT !.console = Append(@, line)], NULL_VALUE)

canvas(m, args) ==
  LET width == OrNull(Arg(args, 1))
      height == OrNull(Arg(args, 2))
  IN  IF width.kind # "number" THEN Throw(m, "canvas expects a width argument")
      ELSE IF height.kind # "number" THEN Throw(m, "canvas expects a height argument")
      ELSE makeCanvas(m, width.num, height.num)

canvasWidth(m, args) ==
  LET canvasValue == OrNull(Arg(args, 1))
  IN  IF canvasValue.kind # "canvas" THEN Throw(m, "canvasWidth expects a canvas")
      ELSE Return(m, Num(m.canvases[canvasValue.ref].width))

canvasHeight(m, args) ==
  LET canvasValue == OrNull(Arg(args, 1))
  IN  IF canvasValue.kind # "canvas" THEN Throw(m, "canvasHeight expects a canvas")
      ELSE Return(m, Num(m.canvases[canvasValue.ref].height))

fillCanvas(m, args) ==
  LET canvasValue == OrNull(Arg(args, 1))
      red == OrNull(Arg(args, 2))
      green == OrNull(Arg(args, 3))
      blue == OrNull(Arg(args, 4))
      alpha == Arg(args, 5)
  IN  IF canvasValue.kind # "canvas" THEN Throw(m, "fillCanvas expects a canvas")
      ELSE IF red.kind # "number" THEN Throw(m, "fillCanvas expects a red channel value")
      ELSE IF green.kind # "number" THEN Throw(m, "fillCanvas expects a green channel value")
      ELSE IF blue.kind # "number" THEN Throw(m, "fillCanvas expects a blue channel value")
      ELSE IF alpha # Undefined /\ alpha.kind # "number"
           THEN Throw(m, "fillCanvas expects an alpha channel value")
      ELSE LET r == channel(red.num)
               g == channel(green.num)
               b == channel(blue.num)
               a == IF alpha # Undefined THEN channel(alpha.num) ELSE Int2Num(255)
               old == m.canvases[canvasValue.ref].pixels
               pixels == [i \in 1..Len(old) |->
                            CASE i % 4 = 1 -> Uint8Clamp(r)
                              [] i % 4 = 2 -> Uint8Clamp(g)
                              [] i % 4 = 3 -> Uint8Clamp(b)
                              [] i % 4 = 0 -> Uint8Clamp(a)]
           IN  Return([m EXCEPT !.canvases[canvasValue.ref].pixels = pixels], canvasValue)

\* a setPixel that stores each channel as soon as it has checked it
setPixel_storeAsChecked(m, args) ==
  LET canvasValue == OrNull(Arg(args, 1))
      xValue == OrNull(Arg(args, 2))
      yValue == OrNull(Arg(args, 3))
      red == OrNull(Arg(args, 4))
      green == OrNull(Arg(args, 5))
      blue == OrNull(Arg(args, 6))
      alpha == Arg(args, 7)
  IN  IF canvasValue.kind # "canvas"
      THEN Throw(m, "setPixel expects a canvas as the first argument")
      ELSE IF xValue.kind # "number" THEN Throw(m, "setPixel expects an x coordinate")
      ELSE IF yValue.kind # "number" THEN Throw(m, "setPixel expects a y coordinate")
      ELSE LET c == m.canvases[canvasValue.ref]
               x == NumFloor(xValue.num)
               y == NumFloor(yValue.num)
               index == NumMul(NumAdd(NumMul(y, Int2Num(c.width)), x), Int2Num(4))
               Stored(pixels) == [m EXCEPT !.canvases[canvasValue.ref].pixels = pixels]
           IN  IF \/ NumLt(x, Int2Num(0))
                  \/ NumLe(Int2Num(c.width), x)
                  \/ NumLt(y, Int2Num(0))
                  \/ NumLe(Int2Num(c.height), y)
               THEN Throw(m, "setPixel coordinate is out of bounds")
               ELSE IF red.kind # "number" THEN Throw(m, "setPixel expects a red channel value")
               ELSE LET p1 == setByte(c.pixels, index, channel(red.num))
                    IN  IF green.kind # "number"
                        THEN Throw(Stored(p1), "setPixel expects a green channel value")
                        ELSE LET p2 == setByte(p1, NumAdd(index, Int2Num(1)),
                                               channel(green.num))
                             IN  IF blue.kind # "number"
                                 THEN Throw(Stored(p2), "setPixel expects a blue channel value")
                                 ELSE LET p3 == setByte(p2, NumAdd(index, Int2Num(2)),
                                                        channel(blue.num))
                                      IN  IF alpha # Undefined /\ alpha.kind # "number"
                                          THEN Throw(Stored(p3),
                                                     "setPixel expects an alpha channel value")
                                          ELSE Return(Stored(setByte(p3,
                                                        NumAdd(index, Int2Num(3)),
                                                        IF alpha # Undefined
                                                        THEN channel(alpha.num)
                                                        ELSE Int2Num(255))),
                                                      canvasValue)

setPixel(m, args) ==
  LET canvasValue == OrNull(Arg(args, 1))
      xValue == OrNull(Arg(args, 2))
      yValue == OrNull(Arg(args, 3))
      red == OrNull(Arg(args, 4))
      green == OrNull(Arg(args, 5))
      blue == OrNull(Arg(args, 6))
      alpha == Arg(args, 7)
  IN  IF canvasValue.kind # "canvas"
      THEN Throw(m, "setPixel expects a canvas as the first argument")
      ELSE IF xValue.kind # "number" THEN Throw(m, "setPixel expects an x coordinate")
      ELSE IF yValue.kind # "number" THEN Throw(m, "setPixel expects a y coordinate")
      ELSE LET c == m.canvases[canvasValue.ref]
               x == NumFloor(xValue.num)
               y == NumFloor(yValue.num)
           IN  IF \/ NumLt(x, Int2Num(0))
                  \/ NumLe(Int2Num(c.width), x)
                  \/ NumLt(y, Int2Num(0))
                  \/ NumLe(Int2Num(c.height), y)
               THEN Throw(m, "setPixel coordinate is out of bounds")
               ELSE IF red.kind # "number" THEN Throw(m, "setPixel expects a red channel value")
               ELSE IF green.kind # "number"
                    THEN Throw(m, "setPixel expects a green channel value")
               ELSE IF blue.kind # "number"
                    THEN Throw(m, "setPixel expects a blue channel value")
               ELSE IF alpha # Undefined /\ alpha.kind # "number"
                    THEN Throw(m, "setPixel expects an alpha channel value")
               ELSE LET r == channel(red.num)
                        g == channel(green.num)
                        b == channel(blue.num)
                        a == IF alpha # Undefined THEN channel(alpha.num) ELSE Int2Num(255)
                        index == NumMul(NumAdd(NumMul(y, Int2Num(c.width)), x), Int2Num(4))
                        p1 == setByte(c.pixels, index, r)
                        p2 == setByte(p1, NumAdd(index, Int2Num(1)), g)
                        p3 == setByte(p2, NumAdd(index, Int2Num(2)), b)
                        p4 == setByte(p3, NumAdd(index, Int2Num(3)), a)
                    IN  Return([m EXCEPT !.canvases[canvasValue.ref].pixels = p4],
                               canvasValue)

(***************************************************************************)
(* The evaluator (interpreter.ts).                                         *)
(***************************************************************************)
RECURSIVE evaluateStatement(_, _, _)
RECURSIVE evaluateStatements(_, _, _, _)
RECURSIVE evaluateExpression(_, _, _)
RECURSIVE evaluateArgs(_, _, _, _, _)
RECURSIVE forLoop(_, _, _, _, _)
RECURSIVE whileLoop(_, _, _, _)
RECURSIVE call(_, _, _, _)

\* a read that copies a canvas as cloneValue copies a number
copyCanvas(m, v) ==
  IF v.kind = "canvas"
  THEN Return([m EXCEPT !.canvases = Append(@, @[v.ref])], CanvasValue(Len(m.canvases) + 1))
  ELSE Return(m, cloneValue(v))

evaluateIdentifier_copiedCanvas(m, expression, environment) ==
  Then(get(m, environment, expression.name), LAMBDA m1: copyCanvas(m1, m1.value))

\* case 'identifier': cloneValue(environment.get(expression.name))
evaluateIdentifier(m, expression, environment) ==
  Then(get(m, environment, expression.name),
       LAMBDA m1: Return(m1, cloneValue(m1.value)))

createUserFunction(m, expression, environment) ==
  Return(m, UserFunctionValue(expression.params, expression.body, environment))

createBlockFunction(m, expression, environment) ==
  Return(m, UserFunctionValue(<<>>, expression.block, environment))

\* a loop that goes on with the next statement after a statement has thrown
evaluateStatements_pastFailure(m, statements, i, environment) ==
  IF i > Len(statements) THEN m
  ELSE Throw(evaluateStatements(
               [evaluateStatement(m, statements[i], environment) EXCEPT !.error = NoError],
               statements, i + 1, environment),
             evaluateStatement(m, statements[i], environment).error)

\* the statements of a block or of a function body, from the i-th on:
\* the loop of evaluateBlock, its result kept in m.value
evaluateStatements(m, statements, i, environment) ==
  IF i > Len(statements) THEN m
  ELSE Then(evaluateStatement(m, statements[i], environment),
            LAMBDA m1: evaluateStatements(m1, statements, i + 1, environment))

evaluateBlock(m, block, environment) ==
  evaluateStatements(Return(m, NULL_VALUE), block.statements, 1, environment)

\* evaluateBlock(block, new Environment(parent))
evaluateBlockIn(m, block, parent) ==
  Then(newEnvironment(m, parent), LAMBDA m1: evaluateBlock(m1, block, newest(m1)))

evaluateLet(m, statement, environment) ==
  Then(evaluateExpression(m, statement.value, environment),
       LAMBDA m1: Return(define(m1, environment, statement.name, m1.value), m1.value))

evaluateAssignment(m, statement, environment) ==
  Then(evaluateExpression(m, statement.value, environment),
       LAMBDA m1: Return(assign(m1, environment, statement.name, m1.value), m1.value))

\* a loop that runs the body before it assigns the step's value to the loop
\* variable
forLoop_staleVariable(m, statement, iterator, loopEnv, result) ==
  Then(next(m, iterator.ref),
       LAMBDA m1:
         IF m1.value.done THEN Return(m1, result)
         ELSE Then(evaluateBlockIn(m1, statement.body, loopEnv),
                   LAMBDA m4:
                     forLoop(assign(m4, loopEnv, statement.iterator,
                                    cloneValue(m1.value.value)),
                             statement, iterator, loopEnv, m4.value)))

\* a loop that binds the loop variable anew in the environment of every
\* iteration
forLoop_variablePerIteration(m, statement, iterator, loopEnv, result) ==
  Then(next(m, iterator.ref),
       LAMBDA m1:
         IF m1.value.done THEN Return(m1, result)
         ELSE Then(newEnvironment(m1, loopEnv),
                   LAMBDA m2:
                     Then(evaluateBlock(
                            define(m2, newest(m2), statement.iterator,
                                   cloneValue(m1.value.value)),
                            statement.body, newest(m2)),
                          LAMBDA m4: forLoop(m4, statement, iterator, loopEnv, m4.value))))

\* a loop that runs every iteration of the body in the loop environment
forLoop_sharedScope(m, statement, iterator, loopEnv, result) ==
  Then(next(m, iterator.ref),
       LAMBDA m1:
         IF m1.value.done THEN Return(m1, result)
         ELSE Then(evaluateBlock(
                     assign(m1, loopEnv, statement.iterator, cloneValue(m1.value.value)),
                     statement.body, loopEnv),
                   LAMBDA m4: forLoop(m4, statement, iterator, loopEnv, m4.value)))

\* the while (true) loop of evaluateForStatement
forLoop(m, statement, iterator, loopEnv, result) ==
  Then(next(m, iterator.ref),
       LAMBDA m1:
         IF m1.value.done THEN Return(m1, result)
         ELSE Then(evaluateBlockIn(
                     assign(m1, loopEnv, statement.iterator, cloneValue(m1.value.value)),
                     statement.body, loopEnv),
                   LAMBDA m4: forLoop(m4, statement, iterator, loopEnv, m4.value)))

\* a for that steps a copy of the iterator and leaves the iterator itself
\* where it was
evaluateForStatement_copiedIterator(m, statement, environment) ==
  Then(evaluateExpression(m, statement.iterable, environment),
       LAMBDA m1:
         IF m1.value.kind # "iterator" THEN Throw(m1, "for expects an iterator iterable")
         ELSE Then(newEnvironment(
                     [m1 EXCEPT !.iterators = Append(@, m1.iterators[m1.value.ref])],
                     environment),
                   LAMBDA m2: forLoop(define(m2, newest(m2), statement.iterator, NULL_VALUE),
                                      statement, IteratorValue(Len(m2.iterators)),
                                      newest(m2), NULL_VALUE)))

\* a for that creates the loop environment and defines the loop variable
\* before it looks at the kind of the iterable
evaluateForStatement_lateCheck(m, statement, environment) ==
  Then(evaluateExpression(m, statement.iterable, environment),
       LAMBDA m1:
         Then(newEnvironment(m1, environment),
              LAMBDA m2:
                IF m1.value.kind # "iterator"
                THEN Throw(define(m2, newest(m2), statement.iterator, NULL_VALUE),
                           "for expects an iterator iterable")
                ELSE forLoop(define(m2, newest(m2), statement.iterator, NULL_VALUE),
                             statement, m1.value, newest(m2), NULL_VALUE)))

evaluateForStatement(m, statement, environment) ==
  Then(evaluateExpression(m, statement.iterable, environment),
       LAMBDA m1:
         IF m1.value.kind # "iterator" THEN Throw(m1, "for expects an iterator iterable")
         ELSE Then(newEnvironment(m1, environment),
                   LAMBDA m2: forLoop(define(m2, newest(m2), statement.iterator, NULL_VALUE),
                                      statement, m1.value, newest(m2), NULL_VALUE)))

evaluateStatement(m, statement, environment) ==
  CASE statement.type = "let" -> evaluateLet(m, statement, environment)
    [] statement.type = "assignment" -> evaluateAssignment(m, statement, environment)
    [] statement.type = "for" -> evaluateForStatement(m, statement, environment)
    [] statement.type = "expression" ->
         evaluateExpression(m, statement.expression, environment)

\* expression.args.map(...): the arguments from the i-th on, left to right
evaluateArgs(m, args, i, environment, done) ==
  IF i > Len(args) THEN Return(m, done)
  ELSE Then(evaluateExpression(m, args[i], environment),
            LAMBDA m1: evaluateArgs(m1, args, i + 1, environment, Append(done, m1.value)))

evaluateCallExpression(m, expression, environment) ==
  Then(evaluateExpression(m, expression.callee, environment),
       LAMBDA m1:
         IF m1.value.kind # "function"
         THEN Throw(m1, "Attempted to call a non-function value")
         ELSE Then(evaluateArgs(m1, expression.args, 1, environment, <<>>),
                   LAMBDA m2: call(m2, m1.value, m2.value, Undefined)))

\* an if that evaluates the branch in the current environment
evaluateIfExpression_currentEnvironment(m, expression, environment) ==
  Then(evaluateExpression(m, expression.condition, environment),
       LAMBDA m1:
         IF isTruthy(m1.value)
         THEN evaluateBlock(m1, expression.thenBranch, environment)
         ELSE IF "elseBranch" \in DOMAIN expression
         THEN evaluateBlock(m1, expression.elseBranch, environment)
         ELSE Return(m1, NULL_VALUE))

evaluateIfExpression(m, expression, environment) ==
  Then(evaluateExpression(m, expression.condition, environment),
       LAMBDA m1:
         IF isTruthy(m1.value)
         THEN evaluateBlockIn(m1, expression.thenBranch, environment)
         ELSE IF "elseBranch" \in DOMAIN expression
         THEN evaluateBlockIn(m1, expression.elseBranch, environment)
         ELSE Return(m1, NULL_VALUE))

\* method.call([right], left), or the throw for a failed lookup
invokeMethod(m, method, expression, left, right) ==
  IF method = Undefined
  THEN Throw(m, "Unknown operator " \o expression.operator \o " for " \o left.kind)
  ELSE call(m, method, <<right>>, left)

evaluateInfixExpression(m, expression, environment) ==
  Then(evaluateExpression(m, expression.left, environment),
       LAMBDA m1:
         Then(evaluateExpression(m1, expression.right, environment),
              LAMBDA m2:
                invokeMethod(m2, lookupMethod(m2, m1.value, expression.operator),
                             expression, m1.value, m2.value)))

evaluateExpression(m, expression, environment) ==
  CASE expression.type = "number" -> Return(m, makeNumber(expression.num))
    [] expression.type = "string" -> Return(m, makeString(expression.str))
    [] expression.type = "boolean" -> Return(m, makeBoolean(expression.bool))
    [] expression.type = "null" -> Return(m, NULL_VALUE)
    [] expression.type = "identifier" -> evaluateIdentifier(m, expression, environment)
    [] expression.type = "function" -> createUserFunction(m, expression, environment)
    [] expression.type = "call" -> evaluateCallExpression(m, expression, environment)
    [] expression.type = "block" -> evaluateBlockIn(m, expression, environment)
    [] expression.type = "blockFunction" -> createBlockFunction(m, expression, environment)
    [] expression.type = "if" -> evaluateIfExpression(m, expression, environment)
    [] expression.type = "infix" -> evaluateInfixExpression(m, expression, environment)

\* a forEach that defines only the parameters that have an argument
RECURSIVE defineParams_onlyGiven(_, _, _, _, _)
defineParams_onlyGiven(m, fnEnv, params, args, index) ==
  IF index > Len(params) \/ index > Len(args) THEN m
  ELSE defineParams_onlyGiven(define(m, fnEnv, params[index], OrNull(Arg(args, index))),
                              fnEnv, params, args, index + 1)

\* this.params.forEach((param, index) => fnEnv.define(param, args[index] ?? NULL_VALUE))
RECURSIVE defineParams(_, _, _, _, _)
defineParams(m, fnEnv, params, args, index) ==
  IF index > Len(params) THEN m
  ELSE defineParams(define(m, fnEnv, params[index], OrNull(Arg(args, index))),
                    fnEnv, params, args, index + 1)

\* the call is logged; then fnEnv is defined and the body evaluated in it
callIn(m, fn, args, thisArg, fnEnv) ==
  evaluateBlock(
    defineParams(IF thisArg # Undefined THEN define(m, fnEnv, "self", thisArg) ELSE m,
                 fnEnv, fn.params, args, 1),
    fn.body, fnEnv)

logCall(m, fn, args) == [m EXCEPT !.calls = Append(@, [fn |-> fn, args |-> args])]

\* a call of a function created by a function call runs in a child of a copy
\* of the environment of that call
callUser_copiedClosure(m, fn, args, thisArg) ==
  Then(IF fn.closure = 1 THEN logCall(m, fn, args)
       ELSE [logCall(m, fn, args) EXCEPT !.envs = Append(@, @[fn.closure])],
       LAMBDA copied:
         Then(newEnvironment(copied, IF fn.closure = 1 THEN 1 ELSE newest(copied)),
              LAMBDA m1: callIn(m1, fn, args, thisArg, newest(m1))))

\* a call that runs in a child of the environment created last, the one of
\* the caller when the caller is a call that has made no call yet
callUser_callerEnvironment(m, fn, args, thisArg) ==
  Then(newEnvironment(logCall(m, fn, args), newest(m)),
       LAMBDA m1: callIn(m1, fn, args, thisArg, newest(m1)))

\* UserFunctionValue.call
callUser(m, fn, args, thisArg) ==
  Then(newEnvironment(logCall(m, fn, args), fn.closure),
       LAMBDA m1: callIn(m1, fn, args, thisArg, newest(m1)))

\* a loop that runs the block before it checks the condition
whileLoop_blockFirst(m, condition, block, result) ==
  Then(call(m, block, <<>>, Undefined),
       LAMBDA m1:
         Then(call(m1, condition, <<>>, Undefined),
              LAMBDA m2:
                IF ~isTruthy(m2.value) THEN Return(m2, m1.value)
                ELSE whileLoop(m2, condition, block, m1.value)))

\* the while (true) loop of the while native
whileLoop(m, condition, block, result) ==
  Then(call(m, condition, <<>>, Undefined),
       LAMBDA m1:
         IF ~isTruthy(m1.value) THEN Return(m1, result)
         ELSE Then(call(m1, block, <<>>, Undefined),
                   LAMBDA m2: whileLoop(m2, condition, block, m2.value)))

\* a while that checks its block only after the first condition call
while_lateBlockCheck(m, args) ==
  IF Arg(args, 1) = Undefined \/ Arg(args, 1).kind # "function"
  THEN Throw(m, "while expects a function condition")
  ELSE Then(call(m, Arg(args, 1), <<>>, Undefined),
            LAMBDA m1:
              IF Arg(args, 2) = Undefined \/ Arg(args, 2).kind # "function"
              THEN Throw(m1, "while expects a function block")
              ELSE whileLoop(m1, Arg(args, 1), Arg(args, 2), NULL_VALUE))

\* the native while
while(m, args) ==
  LET condition == Arg(args, 1)
      block == Arg(args, 2)
  IN  IF condition = Undefined \/ condition.kind # "function"
      THEN Throw(m, "while expects a function condition")
      ELSE IF block = Undefined \/ block.kind # "function"
      THEN Throw(m, "while expects a function block")
      ELSE whileLoop(m, condition, block, NULL_VALUE)

\* NativeFunctionValue.call: this.implementation(args, thisArg)
callNative(m, fn, args, thisArg) ==
  CASE fn.impl = "print" -> print(m, args)
    [] fn.impl = "while" -> while(m, args)
    [] fn.impl = "canvas" -> canvas(m, args)
    [] fn.impl = "canvasWidth" -> canvasWidth(m, args)
    [] fn.impl = "canvasHeight" -> canvasHeight(m, args)
    [] fn.impl = "fillCanvas" -> fillCanvas(m, args)
    [] fn.impl = "setPixel" -> setPixel(m, args)
    [] fn.impl = "string.plus" -> stringPlus(m, args, thisArg)
    [] SubSeq(fn.impl, 1, 7) = "number." -> numberMethod(m, fn.impl, args, thisArg)
    [] SubSeq(fn.impl, 1, 8) = "boolean." -> booleanMethod(m, fn.impl, args, thisArg)

\* FunctionValue.call
call(m, fn, args, thisArg) ==
  IF fn.native THEN callNative(m, fn, args, thisArg) ELSE callUser(m, fn, args, thisArg)

(***************************************************************************)
(* createGlobalEnvironment.                                                *)
(***************************************************************************)
NumberMethods ==
  <<"plus", "minus", "times", "dividedBy", "rangeExclusive", "rangeInclusive", "equals",
    "lessThan", "lessThanOrEqual", "greaterThan", "greaterThanOrEqual">>

BooleanMethods == <<"and", "or", "equals">>

RECURSIVE registerMethods(_, _, _, _)
registerMethods(m, kind, names, i) ==
  IF i > Len(names) THEN m
  ELSE registerMethods(
         registerMethod(m, kind, names[i], NativeFunctionValue(kind \o "." \o names[i], names[i])),
         kind, names, i + 1)

NativeNames ==
  <<"print", "while", "canvas", "canvasWidth", "canvasHeight", "fillCanvas", "setPixel">>

RECURSIVE defineNatives(_, _, _)
defineNatives(m, env, i) ==
  IF i > Len(NativeNames) THEN m
  ELSE defineNatives(define(m, env, NativeNames[i],
                            NativeFunctionValue(NativeNames[i], NativeNames[i])),
                     env, i + 1)

\* the new global Environment is returned as the value
createGlobalEnvironment(m) ==
  LET m1 == newEnvironment(m, NoParent)
      env == newest(m1)
      m2 == registerMethods(m1, "number", NumberMethods, 1)
      m3 == registerMethod(m2, "string", "plus", NativeFunctionValue("string.plus", "plus"))
      m4 == registerMethods(m3, "boolean", BooleanMethods, 1)
      m5 == define(m4, env, "true", makeBoolean(TRUE))
      m6 == define(m5, env, "false", makeBoolean(FALSE))
      m7 == define(m6, env, "null", NULL_VALUE)
  IN  Return(defineNatives(m7, env, 1), env)

(***************************************************************************)
(* The machine held in the variables.                                      *)
(***************************************************************************)
M ==
  [envs |-> envs, iterators |-> iterators, canvases |-> canvases, console |-> console,
   methodRegistry |-> methodRegistry, calls |-> calls, value |-> value, error |-> error]

Commit(m) ==
  /\ envs' = m.envs
  /\ iterators' = m.iterators
  /\ canvases' = m.canvases
  /\ console' = m.console
  /\ methodRegistry' = m.methodRegistry
  /\ calls' = m.calls
  /\ value' = m.value
  /\ error' = m.error

\* a process that has loaded the modules and run nothing
Fresh ==
  [envs |-> <<>>, iterators |-> <<>>, canvases |-> <<>>, console |-> <<>>,
   methodRegistry |-> EmptyRegistry, calls |-> <<>>, value |-> NULL_VALUE,
   error |-> NoError]

\* the Environment createGlobalEnvironment returns in a fresh process
GlobalEnv == 1

(***************************************************************************)
(* Programs.  A program carries a label and its input so that a property   *)
(* can name the program it is about; the evaluator reads neither.          *)
(***************************************************************************)
Labelled(label, input, statements) ==
  [type |-> "program", statements |-> statements, label |-> label, input |-> input]

Id(name) == Identifier(name)

Expr(expression) == ExpressionStatement(expression)

\* snippets.ts, closure-counter: the counter started at start, called n times
ClosureCounter(start, n) ==
  Labelled("closure-counter", [start |-> start, n |-> n],
    <<LetStatement("makeCounter",
        FunctionExpression(<<"start">>,
          <<LetStatement("current", Id("start")),
            Expr(FunctionExpression(<<>>,
              <<AssignmentStatement("current",
                  InfixExpression(Id("current"), "plus", NumberLiteral(1))),
                Expr(Id("current"))>>))>>)),
      LetStatement("counter", CallExpression(Id("makeCounter"), <<NumberLiteral(start)>>))>>
    \o [i \in 1..n |-> Expr(CallExpression(Id("counter"), <<>>))])

Op(left, operator, right) == InfixExpression(left, operator, right)

Call(name, args) == CallExpression(Id(name), args)

\* log = log plus mark
Mark(mark) == AssignmentStatement("log", Op(Id("log"), "plus", StringLiteral(mark)))

\* interpreter.test.ts, the while tests: the condition is falsy exactly when
\* n equals stop (and truthy again beyond it); condition and body mark the log
WhileKinds == {"notEquals", "countdown", "trailingBlock"}

WhileCondition(kind, stop) ==
  FunctionExpression(<<>>,
    <<Mark("c"),
      Expr(IF kind = "countdown"
           THEN Op(NumberLiteral(stop), "minus", Id("n"))
           ELSE Op(Op(Id("n"), "equals", NumberLiteral(stop)), "equals", BooleanLiteral(FALSE)))>>)

WhileBodyStatements ==
  <<Mark("b"),
    AssignmentStatement("n", Op(Id("n"), "plus", NumberLiteral(1))),
    Expr(Op(Id("n"), "times", NumberLiteral(10)))>>

WhileBody(kind) ==
  IF kind = "trailingBlock"
  THEN BlockFunctionExpression(WhileBodyStatements)
  ELSE FunctionExpression(<<>>, WhileBodyStatements)

WhileProgram(kind, stop) ==
  Labelled("while", [kind |-> kind, stop |-> stop],
    <<LetStatement("log", StringLiteral("")),
      LetStatement("n", NumberLiteral(0)),
      Expr(Call("while", <<WhileCondition(kind, stop), WhileBody(kind)>>)),
      Expr(Id("log"))>>)

\* interpreter.test.ts, "throws when the condition argument is not a function"
NotFunctions ==
  {BooleanLiteral(TRUE), NumberLiteral(1), NullLiteral, StringLiteral("s"),
   Op(NumberLiteral(0), "rangeExclusive", NumberLiteral(2))}

WhileBadShapes == {"condition", "block", "both", "noBlock", "noArguments"}

WhileBadProgram(shape, bad) ==
  LET fn(mark) == FunctionExpression(<<>>, <<Mark(mark), Expr(BooleanLiteral(FALSE))>>)
      args == CASE shape = "condition" -> <<bad, fn("b")>>
                [] shape = "block" -> <<fn("c"), bad>>
                [] shape = "both" -> <<bad, bad>>
                [] shape = "noBlock" -> <<fn("c")>>
                [] shape = "noArguments" -> <<>>
  IN  Labelled("while-bad", [shape |-> shape],
        <<LetStatement("log", StringLiteral("")),
          Expr(Call("while", args)),
          Expr(Id("log"))>>)

\* a let of x in an inner scope, while x is bound in the global scope
ScopeKinds == {"block", "if", "else", "function", "trailingBlock", "for", "same"}

ScopeProgram(kind) ==
  LET inner == <<LetStatement("x", NumberLiteral(2)), Expr(Id("x"))>>
      run == LetStatement("run", FunctionExpression(<<"f">>, <<Expr(Call("f", <<>>))>>))
      construct ==
        CASE kind = "block" -> Expr(BlockExpression(inner))
          [] kind = "if" -> Expr(IfExpression(BooleanLiteral(TRUE), inner))
          [] kind = "else" ->
               Expr(IfElseExpression(BooleanLiteral(FALSE), <<Expr(NullLiteral)>>, inner))
          [] kind = "function" -> Expr(CallExpression(FunctionExpression(<<>>, inner), <<>>))
          [] kind = "trailingBlock" -> Expr(Call("run", <<BlockFunctionExpression(inner)>>))
          [] kind = "for" ->
               ForStatement("i", Op(NumberLiteral(0), "rangeExclusive", NumberLiteral(2)), inner)
          [] kind = "same" -> LetStatement("x", NumberLiteral(2))
  IN  Labelled("scope", [kind |-> kind],
        <<run, LetStatement("x", NumberLiteral(1)), construct, Expr(Id("x"))>>)

\* canvas.test.ts, "fills and updates pixels": the canvas is reached through
\* a, through the copy b of a, and through the parameter c of paint
SharedCanvasProgram ==
  LET n(i) == NumberLiteral(i)
  IN  Labelled("shared-canvas", [none |-> 0],
        <<LetStatement("a", Call("canvas", <<n(2), n(1)>>)),
          LetStatement("b", Id("a")),
          Expr(Call("fillCanvas", <<Id("b"), n(10), n(20), n(30), n(40)>>)),
          LetStatement("paint",
            FunctionExpression(<<"c">>,
              <<Expr(Call("setPixel", <<Id("c"), n(1), n(0), n(90), n(80), n(70), n(60)>>))>>)),
          Expr(Call("paint", <<Id("a")>>)),
          Expr(Id("b"))>>)

\* y is read from x and then assigned: x keeps its value
Scalars == {NumberLiteral(1), StringLiteral("s"), BooleanLiteral(TRUE)}

ScalarProgram(first, second) ==
  Labelled("scalar", [first |-> first, second |-> second],
    <<LetStatement("x", first),
      LetStatement("y", Id("x")),
      AssignmentStatement("y", second),
      Expr(Id("x")),
      AssignmentStatement("x", NullLiteral),
      Expr(Id("y"))>>)

\* a closure and an iterator reached through two bindings
SharedReferenceProgram ==
  Labelled("shared-reference", [none |-> 0],
    ClosureCounter(0, 1).statements
    \o <<LetStatement("again", Id("counter")),
         Expr(Call("again", <<>>)),
         LetStatement("r", Op(NumberLiteral(0), "rangeExclusive", NumberLiteral(2))),
         LetStatement("s", Id("r")),
         ForStatement("i", Id("r"), <<Expr(Id("i"))>>),
         ForStatement("j", Id("s"), <<Expr(Id("j"))>>)>>)

\* the literals a condition evaluates to, each with whether it is truthy
Conditions ==
  {<<BooleanLiteral(TRUE), TRUE>>, <<BooleanLiteral(FALSE), FALSE>>,
   <<NumberLiteral(0), FALSE>>, <<NumberLiteral(1), TRUE>>,
   <<StringLiteral(""), FALSE>>, <<StringLiteral("a"), TRUE>>, <<NullLiteral, FALSE>>}

\* a branch of an if: it marks the log, defines x and y and yields x
IfBranch(mark, x) ==
  <<Mark(mark), LetStatement("x", NumberLiteral(x)), LetStatement("y", NumberLiteral(x)),
    Expr(Id("x"))>>

\* an if, at the top level (global) or in the body of a called function that
\* has an x of its own (function); the condition is a call that marks the
\* log; x is read, the log is read and y is read after the if
IfProgram(place, condition, hasElse) ==
  Labelled("if", [place |-> place, condition |-> condition[1], truthy |-> condition[2],
                  hasElse |-> hasElse],
    <<LetStatement("log", StringLiteral("")),
      LetStatement("x", NumberLiteral(1)),
      LetStatement("c", FunctionExpression(<<>>, <<Mark("c"), Expr(condition[1])>>)),
      Expr(IF place = "global"
           THEN (IF hasElse
                 THEN IfElseExpression(Call("c", <<>>), IfBranch("t", 2), IfBranch("e", 3))
                 ELSE IfExpression(Call("c", <<>>), IfBranch("t", 2)))
           ELSE CallExpression(
                  FunctionExpression(<<>>,
                    <<LetStatement("x", NumberLiteral(10)),
                      Expr(IF hasElse
                           THEN IfElseExpression(Call("c", <<>>), IfBranch("t", 2),
                                                 IfBranch("e", 3))
                           ELSE IfExpression(Call("c", <<>>), IfBranch("t", 2)))>>),
                  <<>>)),
      Expr(Id("x")),
      Expr(Id("log")),
      Expr(Id("y"))>>)

\* expressions for values of every kind, each with whether the value is
\* to be truthy
Truths ==
  {<<NullLiteral, FALSE>>, <<BooleanLiteral(TRUE), TRUE>>, <<BooleanLiteral(FALSE), FALSE>>,
   <<NumberLiteral(0), FALSE>>, <<NumberLiteral(1), TRUE>>,
   <<Op(NumberLiteral(0), "minus", NumberLiteral(1)), TRUE>>,
   <<Op(NumberLiteral(1), "minus", NumberLiteral(1)), FALSE>>,
   <<Op(NumberLiteral(1), "dividedBy", NumberLiteral(2)), TRUE>>,
   <<Op(NumberLiteral(1), "dividedBy", NumberLiteral(0)), TRUE>>,
   <<Op(NumberLiteral(0), "dividedBy", NumberLiteral(0)), TRUE>>,
   <<StringLiteral(""), FALSE>>, <<StringLiteral("a"), TRUE>>, <<StringLiteral(" "), TRUE>>,
   <<StringLiteral("false"), TRUE>>,
   <<FunctionExpression(<<>>, <<Expr(BooleanLiteral(FALSE))>>), TRUE>>,
   <<Id("print"), TRUE>>,
   <<Op(NumberLiteral(0), "rangeExclusive", NumberLiteral(0)), TRUE>>,
   <<Call("canvas", <<NumberLiteral(1), NumberLiteral(1)>>), TRUE>>}

\* the expression is the condition of an if that yields 1 or 0, and what the
\* condition of a while yields on its first call (false on the later ones),
\* the body counting in n
TruthProgram(truth) ==
  Labelled("truth", [expression |-> truth[1], truthy |-> truth[2]],
    <<LetStatement("n", NumberLiteral(0)),
      Expr(IfElseExpression(truth[1], <<Expr(NumberLiteral(1))>>, <<Expr(NumberLiteral(0))>>)),
      Expr(Call("while",
             <<FunctionExpression(<<>>,
                 <<Expr(IfElseExpression(Op(Id("n"), "equals", NumberLiteral(0)),
                                         <<Expr(truth[1])>>,
                                         <<Expr(BooleanLiteral(FALSE))>>))>>),
               BlockFunctionExpression(
                 <<AssignmentStatement("n", Op(Id("n"), "plus", NumberLiteral(1)))>>)>>)),
      Expr(Id("n"))>>)

LexicalKinds == {"read", "assign", "let"}

\* the body of the callee of a lexical program: x is free in it
LexicalBody(kind) ==
  CASE kind = "read" -> <<Expr(Id("x"))>>
    [] kind = "assign" ->
         <<AssignmentStatement("x", Op(Id("x"), "plus", NumberLiteral(10)))>>
    [] kind = "let" -> <<LetStatement("z", NumberLiteral(7)), Expr(Id("x"))>>

\* a callee created at the top level, or (made) by a call of a function that
\* has defined x = 5, is called twice by a caller that has defined x = 2;
\* then the global x and z are read
LexicalProgram(kind, made) ==
  Labelled("lexical", [kind |-> kind, made |-> made],
    <<LetStatement("x", NumberLiteral(1)),
      LetStatement("callee",
        IF made
        THEN CallExpression(
               FunctionExpression(<<>>,
                 <<LetStatement("x", NumberLiteral(5)),
                   Expr(FunctionExpression(<<>>, LexicalBody(kind)))>>),
               <<>>)
        ELSE FunctionExpression(<<>>, LexicalBody(kind))),
      LetStatement("caller",
        FunctionExpression(<<>>,
          <<LetStatement("x", NumberLiteral(2)),
            Expr(Call("callee", <<>>)),
            Expr(Call("callee", <<>>))>>)),
      Expr(Call("caller", <<>>)),
      Expr(Id("x")),
      Expr(Id("z"))>>)

MaxArity == 3

\* p1 .. pn
RECURSIVE Params(_)
Params(n) == IF n = 0 THEN <<>> ELSE Append(Params(n - 1), "p" \o Digits(n))

\* the literals 11 .. 10 + m
RECURSIVE Arguments(_)
Arguments(m) == IF m = 0 THEN <<>> ELSE Append(Arguments(m - 1), NumberLiteral(10 + m))

\* a function of n parameters that yields its last parameter, or 0 without
\* parameters, is called with m arguments
ArityProgram(n, m) ==
  Labelled("arity", [n |-> n, m |-> m],
    <<LetStatement("f",
        FunctionExpression(Params(n),
          <<Expr(IF n = 0 THEN NumberLiteral(0) ELSE Id(Params(n)[n]))>>)),
      Expr(Call("f", Arguments(m)))>>)

\* expressions for a value of every kind but iterator
NotIterators ==
  {NumberLiteral(10), StringLiteral("ab"), BooleanLiteral(TRUE), NullLiteral,
   FunctionExpression(<<>>, <<Expr(NumberLiteral(1))>>), Id("print"),
   Call("canvas", <<NumberLiteral(1), NumberLiteral(1)>>)}

\* interpreter.test.ts, the for iterable is not an iterator: the body marks
\* the log
ForBadProgram(iterable) ==
  Labelled("for-bad", [iterable |-> iterable],
    <<LetStatement("log", StringLiteral("")),
      ForStatement("i", iterable, <<Mark("b")>>),
      Expr(Id("log"))>>)

MaxForEnd == 4

\* interpreter.test.ts, the for loops over ranges: the body appends the loop
\* variable to the log and multiplies product by it; a second for over the
\* same iterator marks the log
ForProgram(start, end, inclusive) ==
  Labelled("for", [start |-> start, end |-> end, inclusive |-> inclusive],
    <<LetStatement("log", StringLiteral("")),
      LetStatement("product", NumberLiteral(1)),
      LetStatement("r", Op(NumberLiteral(start),
                           IF inclusive THEN "rangeInclusive" ELSE "rangeExclusive",
                           NumberLiteral(end))),
      ForStatement("i", Id("r"),
        <<AssignmentStatement("log", Op(Id("log"), "plus", Id("i"))),
          AssignmentStatement("product", Op(Id("product"), "times", Id("i")))>>),
      Expr(Id("product")),
      Expr(Id("log")),
      ForStatement("j", Id("r"), <<Mark("x")>>)>>)

\* an operand: the expression, the kind of its value, and the number, the
\* boolean and the text string.plus appends that the value stands for
Operand(expression, kind, n, b, text) ==
  [expression |-> expression, kind |-> kind, n |-> n, b |-> b, text |-> text]

Operands ==
  {Operand(NullLiteral, "null", 0, FALSE, ""),
   Operand(NumberLiteral(6), "number", 6, FALSE, "6"),
   Operand(NumberLiteral(2), "number", 2, FALSE, "2"),
   Operand(StringLiteral("ab"), "string", 0, FALSE, "ab"),
   Operand(BooleanLiteral(TRUE), "boolean", 0, TRUE, "true"),
   Operand(BooleanLiteral(FALSE), "boolean", 0, FALSE, "false"),
   Operand(FunctionExpression(<<>>, <<Expr(NumberLiteral(1))>>), "function", 0, FALSE, ""),
   Operand(Id("print"), "function", 0, FALSE, ""),
   Operand(Op(NumberLiteral(0), "rangeExclusive", NumberLiteral(2)), "iterator", 0, FALSE, ""),
   Operand(Call("canvas", <<NumberLiteral(1), NumberLiteral(1)>>), "canvas", 0, FALSE, "")}

Operators == {"plus", "minus", "equals", "lessThan", "and", "rangeInclusive", "foo"}

\* left operator right
DispatchProgram(left, operator, right) ==
  Labelled("dispatch", [left |-> left, operator |-> operator, right |-> right],
    <<Expr(Op(left.expression, operator, right.expression))>>)

Failures == {"name", "call", "operator", "native", "for"}

\* an expression whose evaluation fails, one for each kind of failure
Failing(failure) ==
  CASE failure = "name" -> Id("nope")
    [] failure = "call" -> CallExpression(NumberLiteral(1), <<>>)
    [] failure = "operator" -> Op(NullLiteral, "plus", NumberLiteral(1))
    [] failure = "native" -> Call("canvasWidth", <<NumberLiteral(1)>>)
    [] failure = "for" ->
         BlockExpression(<<ForStatement("i", NumberLiteral(1), <<Expr(Call("mark", <<>>))>>)>>)

AbortPlaces == {"statement", "let", "operand", "argument", "loop", "function"}

\* the failing expression as a statement, as the value of a let, as the left
\* operand of an operator, as the first argument of a call, in the body of
\* a for over 0..3 and in the body of a function called by a function; what
\* comes after it (statement, operand, argument, iteration, body) calls
\* mark, which appends to the log and paints the pixel of img
AbortProgram(failure, place) ==
  Labelled("abort", [failure |-> failure, place |-> place],
    <<LetStatement("log", StringLiteral("")),
      LetStatement("img", Call("canvas", <<NumberLiteral(1), NumberLiteral(1)>>)),
      LetStatement("mark",
        FunctionExpression(<<>>,
          <<Mark("m"),
            Expr(Call("setPixel", <<Id("img"), NumberLiteral(0), NumberLiteral(0),
                                    NumberLiteral(9), NumberLiteral(9), NumberLiteral(9)>>)),
            Expr(NumberLiteral(1))>>)),
      LetStatement("inner",
        FunctionExpression(<<>>,
          <<Expr(Call("mark", <<>>)), Expr(Failing(failure)), Expr(Call("mark", <<>>))>>)),
      CASE place = "statement" -> Expr(Failing(failure))
        [] place = "let" -> LetStatement("v", Failing(failure))
        [] place = "operand" -> Expr(Op(Failing(failure), "plus", Call("mark", <<>>)))
        [] place = "argument" ->
             Expr(Call("print", <<Failing(failure), Call("mark", <<>>)>>))
        [] place = "loop" ->
             ForStatement("k", Op(NumberLiteral(0), "rangeExclusive", NumberLiteral(3)),
               <<Expr(Call("mark", <<>>)), Expr(Failing(failure))>>)
        [] place = "function" ->
             Expr(CallExpression(
                    FunctionExpression(<<>>,
                      <<Expr(Call("inner", <<>>)), Expr(Call("mark", <<>>))>>),
                    <<>>)),
      Expr(Call("mark", <<>>))>>)

LoopBodies == {"plain", "outer", "next"}

LoopProbes == {"log", "t", "i"}

\* a for over 1...end whose body binds t with let and appends it to the log:
\* the body first appends the t it finds (outer, a t is bound before the
\* for), reads t from the second iteration on (next), or neither (plain);
\* the statement after the for reads the probe
LoopScopeProgram(end, body, probe) ==
  Labelled("loop-scope", [end |-> end, body |-> body, probe |-> probe],
    <<LetStatement("log", StringLiteral("")),
      LetStatement(IF body = "outer" THEN "t" ELSE "u", StringLiteral("o")),
      ForStatement("i", Op(NumberLiteral(1), "rangeInclusive", NumberLiteral(end)),
        (CASE body = "plain" -> <<>>
           [] body = "outer" -> <<AssignmentStatement("log", Op(Id("log"), "plus", Id("t")))>>
           [] body = "next" ->
                <<Expr(IfExpression(Op(Id("i"), "greaterThan", NumberLiteral(1)),
                                    <<Expr(Id("t"))>>))>>)
          \o <<LetStatement("t", Id("i")),
               AssignmentStatement("log", Op(Id("log"), "plus", Id("t")))>>),
      Expr(Id(probe))>>)

\* a for over 1...end whose body binds t = i times 10 with let; iteration a
\* creates f, which adds one to t and yields i plus t, and iteration b
\* creates g, which yields i plus t; after the for, f is called twice and g
\* once
LoopClosureProgram(end, a, b) ==
  Labelled("loop-closure", [end |-> end, a |-> a, b |-> b],
    <<LetStatement("f", NullLiteral),
      LetStatement("g", NullLiteral),
      ForStatement("i", Op(NumberLiteral(1), "rangeInclusive", NumberLiteral(end)),
        <<LetStatement("t", Op(Id("i"), "times", NumberLiteral(10))),
          Expr(IfExpression(Op(Id("i"), "equals", NumberLiteral(a)),
            <<AssignmentStatement("f",
                FunctionExpression(<<>>,
                  <<AssignmentStatement("t", Op(Id("t"), "plus", NumberLiteral(1))),
                    Expr(Op(Id("i"), "plus", Id("t")))>>))>>)),
          Expr(IfExpression(Op(Id("i"), "equals", NumberLiteral(b)),
            <<AssignmentStatement("g",
                FunctionExpression(<<>>, <<Expr(Op(Id("i"), "plus", Id("t")))>>))>>))>>),
      Expr(Call("f", <<>>)),
      Expr(Call("f", <<>>)),
      Expr(Call("g", <<>>))>>)

Programs ==
  {ClosureCounter(start, n) : start \in 0..MaxStart, n \in 1..MaxCalls}
  \cup {WhileProgram(kind, stop) : kind \in WhileKinds, stop \in 0..MaxLoops}
  \cup {WhileBadProgram(shape, bad) : shape \in WhileBadShapes, bad \in NotFunctions}
  \cup {ScopeProgram(kind) : kind \in ScopeKinds}
  \cup {ScalarProgram(first, second) : first \in Scalars, second \in Scalars}
  \cup {SharedCanvasProgram, SharedReferenceProgram}
  \cup {TruthProgram(truth) : truth \in Truths}
  \cup {AbortProgram(failure, place) : failure \in Failures, place \in AbortPlaces}
  \cup {DispatchProgram(left, operator, right) :
          left \in Operands, operator \in Operators, right \in Operands}
  \cup {ForProgram(start, end, inclusive) :
          start \in 0..MaxForEnd, end \in 0..MaxForEnd, inclusive \in BOOLEAN}
  \cup {ForBadProgram(iterable) : iterable \in NotIterators}
  \cup UNION {{LoopClosureProgram(end, a, b) : a \in 1..end, b \in 1..end} :
                 end \in 1..MaxForEnd}
  \cup {LoopScopeProgram(end, body, probe) :
          end \in 1..MaxForEnd, body \in LoopBodies, probe \in LoopProbes}
  \cup {ArityProgram(n, m) : n \in 0..MaxArity, m \in 0..MaxArity}
  \cup {LexicalProgram(kind, made) : kind \in LexicalKinds, made \in BOOLEAN}
  \cup {IfProgram(place, condition, hasElse) :
          place \in {"global", "function"}, condition \in Conditions, hasElse \in BOOLEAN}

(***************************************************************************)
(* Spec: run(program) in a fresh process.  A step is one turn of the loop  *)
(* of evaluateProgram: evaluateStatement of the next statement in the      *)
(* global environment.  A thrown error ends the run.                       *)
(***************************************************************************)
\* const env = createGlobalEnvironment() in a fresh process
Loaded ==
  LET m == createGlobalEnvironment(Fresh)
  IN  /\ envs = m.envs
      /\ iterators = m.iterators
      /\ canvases = m.canvases
      /\ console = m.console
      /\ methodRegistry = m.methodRegistry
      /\ calls = m.calls
      /\ value = NULL_VALUE
      /\ error = NoError

Init ==
  /\ program \in Programs
  /\ pc = 1
  /\ Loaded
  /\ last = [op |-> "run"]

Running == pc \in 1..Len(program.statements) /\ error = NoError

\* result = evaluateStatement(statement, environment)
Step ==
  /\ Commit(evaluateStatement(M, program.statements[pc], GlobalEnv))
  /\ pc' = pc + 1
  /\ UNCHANGED <<program, last>>

Let ==
  /\ Running
  /\ program.statements[pc].type = "let"
  /\ Step

Assignment ==
  /\ Running
  /\ program.statements[pc].type = "assignment"
  /\ Step

For ==
  /\ Running
  /\ program.statements[pc].type = "for"
  /\ Step

Expression ==
  /\ Running
  /\ program.statements[pc].type = "expression"
  /\ Step

Next == Let \/ Assignment \/ For \/ Expression

Spec == Init /\ [][Next]_vars

(***************************************************************************)
(* The host: code that holds the global environment and calls natives,     *)
(* iterators and Environment methods itself, as the tests do.  An error a  *)
(* call throws is caught; error holds the outcome of the latest call.      *)
(***************************************************************************)
Host == [M EXCEPT !.error = NoError]

NoProgram == [label |-> "host", input |-> [none |-> 0], statements |-> <<>>]

InitHost ==
  /\ program = NoProgram
  /\ pc = 0
  /\ Loaded
  /\ last = [op |-> "load"]

(***************************************************************************)
(* SpecRange: the host creates one range iterator with a number method and *)
(* steps it with next(), going on after done has been reported.  last      *)
(* keeps the call that created the iterator and what the steps returned.   *)
(***************************************************************************)
RangeEnds == (0 - MaxRange)..MaxRange

\* start.rangeExclusive(end) or start.rangeInclusive(end): the native method
\* is called with the receiver start
Ranged(method, start, end, inclusive) ==
  /\ Commit(numberMethod(Host, method, <<Num(end)>>, Num(start)))
  /\ last' = [op |-> "range", start |-> start, end |-> end, inclusive |-> inclusive,
              yielded |-> <<>>, dones |-> 0]
  /\ UNCHANGED <<program, pc>>

RangeExclusive ==
  /\ iterators = <<>>
  /\ \E start \in RangeEnds, end \in RangeEnds :
       Ranged("number.rangeExclusive", start, end, FALSE)

RangeInclusive ==
  /\ iterators = <<>>
  /\ \E start \in RangeEnds, end \in RangeEnds :
       Ranged("number.rangeInclusive", start, end, TRUE)

\* iterator.next()
IteratorNext ==
  /\ last.op = "range"
  /\ last.dones < 2
  /\ LET m == next(Host, Len(iterators))
     IN  /\ Commit(m)
         /\ last' = IF m.value.done
                    THEN [last EXCEPT !.dones = @ + 1]
                    ELSE [last EXCEPT !.yielded = Append(@, m.value.value)]
  /\ UNCHANGED <<program, pc>>

NextRange == RangeExclusive \/ RangeInclusive \/ IteratorNext

SpecRange == InitHost /\ [][NextRange]_vars

\* the values a range from start towards end is to yield, in order
ExpectedRange(start, end, inclusive) ==
  LET n == Abs(end - start) + (IF inclusive THEN 1 ELSE 0)
  IN  [i \in 1..n |-> Num(IF start <= end THEN start + (i - 1) ELSE start - (i - 1))]

\* C1: for a <= b, what the steps of a..b have yielded so far is a prefix of
\* a, a+1, ..., b-1, and of a, a+1, ..., b for a...b; a step reports done
\* only when all of them have been yielded, and goes on reporting done
C1_AscendingRange ==
  (last.op = "range" /\ last.start <= last.end) =>
    LET expected == ExpectedRange(last.start, last.end, last.inclusive)
    IN  /\ error = NoError
        /\ Len(expected) = last.end - last.start + (IF last.inclusive THEN 1 ELSE 0)
        /\ Len(last.yielded) <= Len(expected)
        /\ last.yielded = SubSeq(expected, 1, Len(last.yielded))
        /\ last.dones > 0 => last.yielded = expected

C1_Witness ==
  /\ last.op = "range"
  /\ last.start = -1
  /\ last.end = 2
  /\ ~last.inclusive
  /\ last.yielded = <<Num(-1), Num(0), Num(1)>>
  /\ last.dones = 2

\* C2: for a > b, what the steps have yielded so far is a prefix of
\* a, a-1, ..., b+1 for a..b and of a, a-1, ..., b for a...b, and done is
\* reported only after all of them; in both directions no value yielded lies
\* beyond b, and the step is the one chosen at creation: +1 for a <= b and
\* -1 for a > b, whatever has been yielded since
C2_DescendingRange ==
  last.op = "range" =>
    LET expected == ExpectedRange(last.start, last.end, last.inclusive)
        down == last.start > last.end
    IN  /\ error = NoError
        /\ iterators[Len(iterators)].step = IF down THEN -1 ELSE 1
        /\ \A i \in 1..Len(last.yielded) :
             /\ last.yielded[i].kind = "number"
             /\ last.yielded[i].num.d = 1
             /\ IF down THEN last.yielded[i].num.n >= last.end
                ELSE last.yielded[i].num.n <= last.end
             /\ ~last.inclusive => last.yielded[i].num.n # last.end
        /\ down =>
             /\ Len(expected) = last.start - last.end + (IF last.inclusive THEN 1 ELSE 0)
             /\ Len(last.yielded) <= Len(expected)
             /\ last.yielded = SubSeq(expected, 1, Len(last.yielded))
             /\ last.dones > 0 => last.yielded = expected

C2_Witness ==
  /\ last.op = "range"
  /\ last.start = 1
  /\ last.end = -1
  /\ last.inclusive
  /\ last.yielded = <<Num(1), Num(0), Num(-1)>>
  /\ last.dones = 2

(***************************************************************************)
(* SpecEnv: the host constructs scopes and runs a let, an assignment or a  *)
(* read of a name in any scope it holds.  last keeps the latest operation. *)
(***************************************************************************)
EnvNames == {"x", "y"}

EnvValues == 1..2

\* new Environment(parent), or new Environment()
NewEnvironment ==
  /\ Len(envs) < MaxEnvs
  /\ \E parent \in 0..Len(envs) :
       /\ Commit(newEnvironment(Host, parent))
       /\ last' = [op |-> "new", env |-> Len(envs) + 1, name |-> "", val |-> parent]
  /\ UNCHANGED <<program, pc>>

\* let name = val, evaluated in scope env
LetIn ==
  /\ \E env \in 1..Len(envs), name \in EnvNames, val \in EnvValues :
       /\ Commit(evaluateLet(Host, LetStatement(name, NumberLiteral(val)), env))
       /\ last' = [op |-> "let", env |-> env, name |-> name, val |-> val]
  /\ UNCHANGED <<program, pc>>

\* name = val, evaluated in scope env
AssignIn ==
  /\ \E env \in 1..Len(envs), name \in EnvNames, val \in EnvValues :
       /\ Commit(evaluateAssignment(Host, AssignmentStatement(name, NumberLiteral(val)), env))
       /\ last' = [op |-> "assign", env |-> env, name |-> name, val |-> val]
  /\ UNCHANGED <<program, pc>>

NextEnv == NewEnvironment \/ LetIn \/ AssignIn

SpecEnv == InitHost /\ [][NextEnv]_vars

\* the nearest scope from e outwards that binds name in the heap, or NoParent
RECURSIVE Resolve(_, _, _)
Resolve(heap, e, name) ==
  IF e = NoParent THEN NoParent
  ELSE IF name \in DOMAIN heap[e].values THEN e
  ELSE Resolve(heap, heap[e].parent, name)

\* C6: an assignment of v to name in scope e overwrites name in the nearest
\* scope from e outwards that binds name and changes nothing else in any
\* scope; if no scope from e outwards binds name it throws the
\* undefined-variable error and no scope changes
C6_AssignFrame ==
  [][last'.op = "assign" =>
       LET target == Resolve(envs, last'.env, last'.name)
       IN  IF target # NoParent
           THEN /\ error' = NoError
                /\ envs' = [envs EXCEPT ![target].values[last'.name] = Num(last'.val)]
           ELSE /\ error' = "Undefined variable " \o last'.name
                /\ envs' = envs]_vars

\* an assignment in a scope that does not bind x has overwritten x in the
\* parent, which binds x, and not in the global scope, which binds x too
C6_Witness ==
  /\ last.op = "assign"
  /\ last.name = "x"
  /\ error = NoError
  /\ Len(envs) = 3
  /\ last.env = 3
  /\ envs[3].parent = 2
  /\ envs[2].parent = 1
  /\ "x" \notin DOMAIN envs[3].values
  /\ "x" \in DOMAIN envs[2].values
  /\ "x" \in DOMAIN envs[1].values
  /\ envs[2].values["x"] = Num(last.val)
  /\ envs[1].values["x"] # Num(last.val)

(***************************************************************************)
(* SpecCanvas: the host calls the native canvas with arguments of every    *)
(* shape until it holds a buffer, and setPixel with coordinates of every   *)
(* shape on the buffer it holds.  last keeps the latest call.              *)
(***************************************************************************)
\* the halves from -1 to MaxDim + 1/2, and the numbers that are not finite
CanvasNumbers ==
  {makeNumber(Rat(k, 2)) : k \in (0 - 2)..(2 * MaxDim + 1)}
  \cup {makeNumber(Infinity), makeNumber(NumNeg(Infinity)), makeNumber(NaN)}

NotNumbers == {NULL_VALUE, makeString("2")}

CanvasArguments ==
  {<<>>}
  \cup {<<w>> : w \in CanvasNumbers \cup NotNumbers}
  \cup {<<w, h>> : w \in CanvasNumbers \cup NotNumbers, h \in CanvasNumbers \cup NotNumbers}

\* canvas(...args)
Canvas ==
  /\ canvases = <<>>
  /\ \E args \in CanvasArguments :
       /\ Commit(canvas(Host, args))
       /\ last' = [op |-> "canvas", args |-> args]
  /\ UNCHANGED <<program, pc>>

\* the colour the host paints with
Paint == <<Num(9), Num(8), Num(7)>>

\* setPixel(buffer, x, y, 9, 8, 7)
SetPixel ==
  /\ \E ref \in 1..Len(canvases), x \in CanvasNumbers \cup {NULL_VALUE}, y \in CanvasNumbers :
       /\ Commit(setPixel(Host, <<CanvasValue(ref), x, y>> \o Paint))
       /\ last' = [op |-> "setPixel", args |-> <<CanvasValue(ref), x, y>>]
  /\ UNCHANGED <<program, pc>>

NextCanvas == Canvas \/ SetPixel

SpecCanvas == InitHost /\ [][NextCanvas]_vars

\* the integer k with k <= x < k + 1, for a finite x
FloorOf(x) == CHOOSE k \in (0 - 2)..(MaxDim + 2) : k * x.d <= x.n /\ x.n < (k + 1) * x.d

IsFiniteNumber(v) == v.kind = "number" /\ v.num.d > 0

\* C9: canvas(w, h) returns a new buffer of width floor(w) and height
\* floor(h), added to the buffers there are, exactly when w and h are both
\* finite numbers of floor at least 1; otherwise it throws and the buffers
\* are as before
C9_CanvasDimensions ==
  [][last'.op = "canvas" =>
       LET w == OrNull(Arg(last'.args, 1))
           h == OrNull(Arg(last'.args, 2))
       IN  IF /\ IsFiniteNumber(w)
              /\ IsFiniteNumber(h)
              /\ FloorOf(w.num) >= 1
              /\ FloorOf(h.num) >= 1
           THEN /\ error' = NoError
                /\ Len(canvases') = Len(canvases) + 1
                /\ SubSeq(canvases', 1, Len(canvases)) = canvases
                /\ value' = CanvasValue(Len(canvases'))
                /\ canvases'[Len(canvases')].width = FloorOf(w.num)
                /\ canvases'[Len(canvases')].height = FloorOf(h.num)
           ELSE /\ error' \in {"canvas expects a width argument",
                               "canvas expects a height argument",
                               "canvas expects finite width and height",
                               "canvas width and height must be positive integers"}
                /\ canvases' = canvases]_vars

C9_Witness ==
  /\ last.op = "canvas"
  /\ last.args = <<makeNumber(Rat(5, 2)), makeNumber(Rat(3, 2))>>
  /\ error = NoError
  /\ canvases[value.ref].width = 2
  /\ canvases[value.ref].height = 1

\* C10: for numbers x and y, setPixel(buffer, x, y, 9, 8, 7) throws the
\* out-of-bounds error and leaves the buffers as they were whenever
\* (floor x, floor y) is not in [0, width) x [0, height); whenever it returns
\* normally, (floor x, floor y) is in [0, width) x [0, height) and the pixel
\* there is (9, 8, 7, 255)
C10_SetPixelBounds ==
  [][(last'.op = "setPixel" /\ last'.args[2].kind = "number") =>
       LET ref == last'.args[1].ref
           x == last'.args[2].num
           y == last'.args[3].num
           inside ==
             /\ x.d > 0
             /\ y.d > 0
             /\ FloorOf(x) \in 0..(canvases[ref].width - 1)
             /\ FloorOf(y) \in 0..(canvases[ref].height - 1)
       IN  /\ ~inside =>
                /\ error' = "setPixel coordinate is out of bounds"
                /\ canvases' = canvases
           /\ error' = NoError =>
                /\ inside
                /\ value' = CanvasValue(ref)
                /\ SubSeq(canvases'[ref].pixels,
                          4 * (FloorOf(y) * canvases[ref].width + FloorOf(x)) + 1,
                          4 * (FloorOf(y) * canvases[ref].width + FloorOf(x)) + 4)
                     = <<9, 8, 7, 255>>]_vars

\* setPixel with a NaN coordinate has returned normally and no pixel is painted
C10_Witness ==
  /\ last.op = "setPixel"
  /\ last.args[2] = makeNumber(NaN)
  /\ last.args[3] = Num(0)
  /\ error = NoError
  /\ value = last.args[1]
  /\ \A i \in 1..Len(canvases[value.ref].pixels) :
       canvases[value.ref].pixels[i] = IF i % 4 = 0 THEN 255 ELSE 0

(***************************************************************************)
(* C3: the n-th call of the closure a counter factory returned yields      *)
(* start + n: the closure shares the environment of the factory call.      *)
(***************************************************************************)
C3_CounterPersists ==
  program.label = "closure-counter" =>
    /\ error = NoError
    /\ pc >= 4 => value = Num(program.input.start + (pc - 3))

C3_Witness ==
  /\ program.label = "closure-counter"
  /\ program.input.start = 5
  /\ pc = 5
  /\ value = Num(7)

(***************************************************************************)
(* C4: while(conditionFn, bodyFn).  In a while program the condition is    *)
(* first falsy on its (stop + 1)-th call.                                  *)
(***************************************************************************)
\* the function value a function expression of the program text evaluates to
\* in the global scope
GlobalFunction(expression) ==
  IF expression.type = "blockFunction"
  THEN UserFunctionValue(<<>>, expression.block, GlobalEnv)
  ELSE UserFunctionValue(expression.params, expression.body, GlobalEnv)

RECURSIVE Repeated(_, _)
Repeated(text, n) == IF n = 0 THEN "" ELSE text \o Repeated(text, n - 1)

\* C4: once while has returned, the calls made are condition, body,
\* condition, ..., condition, each with no arguments: stop bodies, each after
\* a truthy condition, and stop + 1 conditions, the last one falsy and
\* followed by nothing; the value returned is null if no body ran and the
\* value of the last body call otherwise
C4_WhileOrder ==
  (program.label = "while" /\ pc >= 4) =>
    LET stop == program.input.stop
        conditionFn == GlobalFunction(program.statements[3].expression.args[1])
        bodyFn == GlobalFunction(program.statements[3].expression.args[2])
    IN  /\ error = NoError
        /\ Len(calls) = 2 * stop + 1
        /\ \A i \in 1..Len(calls) :
             /\ calls[i].args = <<>>
             /\ calls[i].fn = IF i % 2 = 1 THEN conditionFn ELSE bodyFn
        /\ envs[GlobalEnv].values["log"] = makeString(Repeated("cb", stop) \o "c")
        /\ envs[GlobalEnv].values["n"] = Num(stop)
        /\ pc = 4 => value = IF stop = 0 THEN NULL_VALUE ELSE Num(10 * stop)

C4_Witness ==
  /\ program.label = "while"
  /\ program.input.stop = 3
  /\ pc = 4
  /\ Len(calls) = 7
  /\ value = Num(30)

\* the body never runs and while returns null
C4_WitnessNoBody ==
  /\ program.label = "while"
  /\ program.input.stop = 0
  /\ pc = 4
  /\ Len(calls) = 1
  /\ value = NULL_VALUE

(***************************************************************************)
(* C5: while with an argument that is missing or no function.              *)
(***************************************************************************)
\* C5: the call of while throws the error of the first argument that is
\* missing or no function, no function has been called and nothing has been
\* marked in the log
C5_WhileArguments ==
  (program.label = "while-bad" /\ pc >= 3) =>
    /\ pc = 3
    /\ error = IF program.input.shape \in {"block", "noBlock"}
               THEN "while expects a function block"
               ELSE "while expects a function condition"
    /\ calls = <<>>
    /\ envs[GlobalEnv].values["log"] = makeString("")

C5_Witness ==
  /\ program.label = "while-bad"
  /\ program.input.shape = "block"
  /\ pc = 3
  /\ error = "while expects a function block"

(***************************************************************************)
(* C7: a let binds in the scope it executes in.                            *)
(***************************************************************************)
\* C7: after let x = 1 in the global scope, a let x = 2 in a block, an if or
\* else branch, a function body, a trailing block or a loop body binds x in
\* a scope of its own, where x is read as 2, and leaves the global x at 1,
\* which is what a read of x yields afterwards; let x = 2 in the global scope
\* itself overwrites the global x
C7_LetIsLocal ==
  (program.label = "scope" /\ pc >= 3) =>
    LET same == program.input.kind = "same"
    IN  /\ error = NoError
        /\ pc = 3 => envs[GlobalEnv].values["x"] = Num(1)
        /\ pc >= 4 =>
             /\ envs[GlobalEnv].values["x"] = IF same THEN Num(2) ELSE Num(1)
             /\ ~same =>
                  \E e \in (GlobalEnv + 1)..Len(envs) :
                    /\ "x" \in DOMAIN envs[e].values
                    /\ envs[e].values["x"] = Num(2)
        /\ pc = 4 => value = Num(2)
        /\ pc = 5 => value = IF same THEN Num(2) ELSE Num(1)

C7_Witness ==
  /\ program.label = "scope"
  /\ program.input.kind = "for"
  /\ pc = 5
  /\ value = Num(1)
  /\ \E e \in (GlobalEnv + 1)..Len(envs) :
       "x" \in DOMAIN envs[e].values /\ envs[e].values["x"] = Num(2)

(***************************************************************************)
(* C8: canvases, functions and iterators are shared; scalars are copied.   *)
(***************************************************************************)
\* the value a literal of the program text evaluates to
LiteralValue(expression) ==
  CASE expression.type = "number" -> makeNumber(expression.num)
    [] expression.type = "string" -> makeString(expression.str)
    [] expression.type = "boolean" -> makeBoolean(expression.bool)
    [] expression.type = "null" -> NULL_VALUE

\* C8: a, its copy b and the parameter of paint hold one canvas: the fill
\* through b and the pixel set through the parameter are both in the one
\* buffer that a and b refer to.  The closure called through counter and
\* through again counts on, and the iterator exhausted through r is
\* exhausted through s.  A scalar y read from x and then assigned leaves x
\* as it was, and an assignment to x then leaves y as it was.
C8_SharedOrCopied ==
  /\ (program.label = "shared-canvas" /\ pc >= 3) =>
       /\ error = NoError
       /\ Len(canvases) = 1
       /\ envs[GlobalEnv].values["a"] = CanvasValue(1)
       /\ envs[GlobalEnv].values["b"] = CanvasValue(1)
       /\ pc \in 4..5 => canvases[1].pixels = <<10, 20, 30, 40, 10, 20, 30, 40>>
       /\ pc >= 6 => canvases[1].pixels = <<10, 20, 30, 40, 90, 80, 70, 60>>
       /\ pc = 7 => value = CanvasValue(1)
  /\ (program.label = "shared-reference" /\ pc >= 4) =>
       /\ error = NoError
       /\ pc = 4 => value = Num(1)
       /\ pc = 6 => value = Num(2)
       /\ pc >= 8 => Len(iterators) = 1
       /\ pc = 9 => value = Num(1)
       /\ pc = 10 => value = NULL_VALUE
  /\ (program.label = "scalar" /\ pc >= 3) =>
       LET first == LiteralValue(program.input.first)
           second == LiteralValue(program.input.second)
       IN  /\ error = NoError
           /\ pc \in 3..5 => envs[GlobalEnv].values["x"] = first
           /\ pc = 3 => envs[GlobalEnv].values["y"] = first
           /\ pc >= 4 => envs[GlobalEnv].values["y"] = second
           /\ pc = 5 => value = first
           /\ pc >= 6 => envs[GlobalEnv].values["x"] = NULL_VALUE
           /\ pc = 7 => value = second

C8_Witness ==
  /\ program.label = "shared-canvas"
  /\ pc = 7
  /\ value = envs[GlobalEnv].values["a"]
  /\ canvases[value.ref].pixels = <<10, 20, 30, 40, 90, 80, 70, 60>>

C8_WitnessScalar ==
  /\ program.label = "scalar"
  /\ program.input.first = NumberLiteral(1)
  /\ program.input.second = StringLiteral("s")
  /\ pc = 5
  /\ value = Num(1)
  /\ envs[GlobalEnv].values["y"] = makeString("s")

(***************************************************************************)
(* SpecPaint: the host creates a canvas one pixel high and paints it with  *)
(* setPixel and fillCanvas, with channel values of every shape and with    *)
(* the alpha given or omitted.  pc counts the paint calls.                 *)
(***************************************************************************)
MaxPaints == 1

Channels ==
  {Num(300), Num(0 - 20), makeNumber(Rat(638, 5)), makeNumber(Rat(1, 2)),
   makeNumber(Rat(0 - 1, 2)), makeNumber(Rat(511, 2)), makeNumber(Infinity),
   makeNumber(NaN)}

\* the channel arguments of a call: red, green, blue and, if given, alpha
ChannelArguments ==
  {<<r, g, b>> : r \in Channels, g \in Channels, b \in Channels}
  \cup {<<r, g, b, a>> : r \in Channels, g \in Channels, b \in Channels, a \in Channels}

\* canvas(width, 1)
CanvasRow ==
  /\ canvases = <<>>
  /\ \E width \in 1..MaxDim :
       /\ Commit(canvas(Host, <<Num(width), Num(1)>>))
       /\ last' = [op |-> "canvas", args |-> <<Num(width), Num(1)>>]
  /\ UNCHANGED <<program, pc>>

\* setPixel(buffer, x, 0, red, green, blue) or setPixel(buffer, x, 0, red, green, blue, alpha)
SetPixelChannels ==
  /\ canvases # <<>>
  /\ pc < MaxPaints
  /\ \E x \in 0..(canvases[1].width - 1), channels \in ChannelArguments :
       /\ Commit(setPixel(Host, <<CanvasValue(1), Num(x), Num(0)>> \o channels))
       /\ last' = [op |-> "setPixel", x |-> x, channels |-> channels]
  /\ pc' = pc + 1
  /\ UNCHANGED program

\* fillCanvas(buffer, red, green, blue) or fillCanvas(buffer, red, green, blue, alpha)
FillCanvasChannels ==
  /\ canvases # <<>>
  /\ pc < MaxPaints
  /\ \E channels \in ChannelArguments :
       /\ Commit(fillCanvas(Host, <<CanvasValue(1)>> \o channels))
       /\ last' = [op |-> "fillCanvas", x |-> 0, channels |-> channels]
  /\ pc' = pc + 1
  /\ UNCHANGED program

NextPaint == CanvasRow \/ SetPixelChannels \/ FillCanvasChannels

SpecPaint == InitHost /\ [][NextPaint]_vars

\* a number other than NaN, rounded to the nearest integer (a half upwards)
\* and then clamped to [0, 255]
RoundedClamped(x) ==
  IF x.d = 0 THEN (IF x.n > 0 THEN 255 ELSE 0)
  ELSE LET k == CHOOSE k \in (0 - 30)..310 :
                  (2 * k - 1) * x.d <= 2 * x.n /\ 2 * x.n < (2 * k + 1) * x.d
       IN  IF k < 0 THEN 0 ELSE IF k > 255 THEN 255 ELSE k

\* the four bytes a paint call with these channel arguments is to store
StoredPixel(stored, channels) ==
  /\ \A c \in 1..4 : stored[c] \in 0..255
  /\ \A c \in 1..Len(channels) :
       ~NumIsNaN(channels[c].num) => stored[c] = RoundedClamped(channels[c].num)
  /\ Len(channels) = 3 => stored[4] = 255

\* C11: a setPixel or fillCanvas call returns normally and every byte it
\* stores is in 0..255 and is its channel argument rounded to the nearest
\* integer and then clamped to [0, 255]; an omitted alpha stores 255.
\* setPixel stores the four bytes of its pixel and leaves the others,
\* fillCanvas stores them in every pixel.
C11_ChannelsClamped ==
  [][last'.op \in {"setPixel", "fillCanvas"} /\ "channels" \in DOMAIN last' =>
       /\ error' = NoError
       /\ Len(canvases'[1].pixels) = Len(canvases[1].pixels)
       /\ \A p \in 0..(canvases[1].width - 1) :
            IF last'.op = "fillCanvas" \/ p = last'.x
            THEN StoredPixel(SubSeq(canvases'[1].pixels, 4 * p + 1, 4 * p + 4),
                             last'.channels)
            ELSE SubSeq(canvases'[1].pixels, 4 * p + 1, 4 * p + 4)
                   = SubSeq(canvases[1].pixels, 4 * p + 1, 4 * p + 4)]_vars

\* canvas.test.ts, "clamps pixel channel values before writing"
C11_Witness ==
  /\ last.op = "setPixel"
  /\ "channels" \in DOMAIN last
  /\ last.channels = <<Num(300), Num(0 - 20), makeNumber(Rat(638, 5))>>
  /\ canvases[1].width = 1
  /\ canvases[1].pixels = <<255, 0, 128, 255>>

(***************************************************************************)
(* The lexer (lexer.ts).  A source is a string; position is the 0-based    *)
(* index of the source; a read beyond the end gives "" for undefined.      *)
(* tokenize returns [tokens, error]: the tokens, or the error thrown.      *)
(***************************************************************************)
keywords == {"let", "if", "else", "true", "false", "null"}

\* source[position]
peek(source, position) ==
  IF position < Len(source) THEN SubSeq(source, position + 1, position + 1) ELSE ""

InText(char, text) == \E i \in 1..Len(text) : SubSeq(text, i, i) = char

isWhitespace(char) == char = " " \/ char = "\t" \/ char = "\r"

isDigit(char) == InText(char, "0123456789")

isIdentifierStart(char) ==
  InText(char, "abcdefghijklmnopqrstuvwxyzABCDEFGHIJKLMNOPQRSTUVWXYZ_")

isIdentifierPart(char) == isIdentifierStart(char) \/ isDigit(char)

Token(type, text, position) == [type |-> type, value |-> text, position |-> position]

\* while (position < source.length && isDigit(peek())): the position after
RECURSIVE afterDigits(_, _)
afterDigits(source, position) ==
  IF isDigit(peek(source, position)) THEN afterDigits(source, position + 1) ELSE position

RECURSIVE afterIdentifier(_, _)
afterIdentifier(source, position) ==
  IF isIdentifierPart(peek(source, position))
  THEN afterIdentifier(source, position + 1)
  ELSE position

\* while (position < source.length && peek() !== '\n'): the position after
RECURSIVE afterComment(_, _)
afterComment(source, position) ==
  IF position < Len(source) /\ peek(source, position) # "\n"
  THEN afterComment(source, position + 1)
  ELSE position

\* the loop that reads a string literal: [text, position] at the closing
\* quote or at the end of the source
RECURSIVE stringLiteral(_, _, _)
stringLiteral(source, position, text) ==
  IF position >= Len(source) \/ peek(source, position) = "\""
  THEN [text |-> text, position |-> position]
  ELSE IF peek(source, position) = "\\"
  THEN stringLiteral(source, position + 2,
         text \o (CASE peek(source, position + 1) = "n" -> "\n"
                    [] peek(source, position + 1) = "t" -> "\t"
                    [] OTHER -> peek(source, position + 1)))
  ELSE stringLiteral(source, position + 1, text \o peek(source, position))

\* the position after a number literal that starts at position
afterNumber(source, position) ==
  IF /\ peek(source, afterDigits(source, position)) = "."
     /\ isDigit(peek(source, afterDigits(source, position) + 1))
  THEN afterDigits(source, afterDigits(source, position) + 1)
  ELSE afterDigits(source, position)

\* the position after the whitespace and the comments that start at position
RECURSIVE afterWhitespace(_, _)
afterWhitespace(source, position) ==
  IF isWhitespace(peek(source, position)) THEN afterWhitespace(source, position + 1)
  ELSE IF peek(source, position) = "/" /\ peek(source, position + 1) = "/"
  THEN afterWhitespace(source, afterComment(source, position))
  ELSE position

Found(type, text, position) ==
  [type |-> type, value |-> text, position |-> position, error |-> NoError]

\* one turn of the while loop of tokenize at a character that is neither
\* whitespace nor the start of a comment: the token pushed, with the
\* position after it, or the error thrown; the cases are tried in the
\* order of tokenize
nextToken(source, position, char, following) ==
  CASE char = "\n" -> Found("newline", "", position + 1)
    [] char = "+" -> Found("identifier", "plus", position + 1)
    [] char = "-" -> Found("identifier", "minus", position + 1)
    [] char = "*" -> Found("identifier", "times", position + 1)
    [] char = "/" -> Found("identifier", "dividedBy", position + 1)
    [] char = "<" /\ following = "=" -> Found("identifier", "lessThanOrEqual", position + 2)
    [] char = "<" /\ following # "=" -> Found("identifier", "lessThan", position + 1)
    [] char = ">" /\ following = "=" -> Found("identifier", "greaterThanOrEqual", position + 2)
    [] char = ">" /\ following # "=" -> Found("identifier", "greaterThan", position + 1)
    [] char = "=" /\ following = "=" -> Found("identifier", "equals", position + 2)
    [] char = "\"" ->
         IF peek(source, stringLiteral(source, position + 1, "").position) # "\""
         THEN [type |-> "", value |-> "", position |-> position,
               error |-> "Unterminated string literal"]
         ELSE Found("string", stringLiteral(source, position + 1, "").text,
                    stringLiteral(source, position + 1, "").position + 1)
    [] isDigit(char) ->
         Found("number", SubSeq(source, position + 1, afterNumber(source, position)),
               afterNumber(source, position))
    [] isIdentifierStart(char) ->
         IF SubSeq(source, position + 1, afterIdentifier(source, position)) \in keywords
         THEN Found(SubSeq(source, position + 1, afterIdentifier(source, position)), "",
                    afterIdentifier(source, position))
         ELSE Found("identifier",
                    SubSeq(source, position + 1, afterIdentifier(source, position)),
                    afterIdentifier(source, position))
    [] char = "=" /\ following = ">" -> Found("arrow", "", position + 2)
    [] char = "=" /\ following \notin {"=", ">"} -> Found("assign", "", position + 1)
    [] char = "," -> Found("comma", "", position + 1)
    [] char = "(" -> Found("lparen", "", position + 1)
    [] char = ")" -> Found("rparen", "", position + 1)
    [] char = "{" -> Found("lbrace", "", position + 1)
    [] char = "}" -> Found("rbrace", "", position + 1)
    [] OTHER -> [type |-> "", value |-> "", position |-> position,
                 error |-> "Unexpected character '" \o char \o "' at position "
                           \o Digits(position)]

RECURSIVE tokenizeFrom(_, _, _)

pushToken(source, found, tokens) ==
  IF found.error # NoError THEN [tokens |-> tokens, error |-> found.error]
  ELSE tokenizeFrom(source, afterWhitespace(source, found.position),
                    Append(tokens, Token(found.type, found.value, found.position)))

\* the while (position < source.length) loop of tokenize, at a position
\* after whitespace and comments
tokenizeFrom(source, position, tokens) ==
  IF position >= Len(source)
  THEN [tokens |-> Append(tokens, Token("eof", "", position)), error |-> NoError]
  ELSE pushToken(source,
                 nextToken(source, position, peek(source, position),
                           peek(source, position + 1)),
                 tokens)

tokenize(source) == tokenizeFrom(source, afterWhitespace(source, 0), <<>>)

(***************************************************************************)
(* The parser (parser.ts).  The cursor is the token sequence and a 0-based *)
(* position; a parse function returns [node, position, error]: the node    *)
(* and the cursor position after it, or the error thrown.                  *)
(***************************************************************************)
INFIX_OPERATORS ==
  {"plus", "minus", "times", "dividedBy", "equals", "lessThan", "lessThanOrEqual",
   "greaterThan", "greaterThanOrEqual", "and", "or"}

Parsed(node, position) == [node |-> node, position |-> position, error |-> NoError]

After(parsed, K(_)) == IF parsed.error # NoError THEN parsed ELSE K(parsed)

current(tokens, position) == tokens[position + 1]

check(tokens, position, type) == current(tokens, position).type = type

\* the token consumed and the position after it, or the error
consume(tokens, position, type, message) ==
  IF check(tokens, position, type)
  THEN Parsed(current(tokens, position), position + 1)
  ELSE [node |-> NullLiteral, position |-> position,
        error |-> message \o " at token " \o current(tokens, position).type
                  \o " (" \o Digits(current(tokens, position).position) \o ")"]

RECURSIVE skipNewlines(_, _)
skipNewlines(tokens, position) ==
  IF check(tokens, position, "newline") THEN skipNewlines(tokens, position + 1) ELSE position

\* Number(token.value) of a number token: digits with an optional fraction
RECURSIVE Number(_, _, _)
Number(text, numerator, denominator) ==
  IF text = "" THEN Rat(numerator, IF denominator = 0 THEN 1 ELSE denominator)
  ELSE IF SubSeq(text, 1, 1) = "."
  THEN Number(SubSeq(text, 2, Len(text)), numerator, 1)
  ELSE Number(SubSeq(text, 2, Len(text)),
              10 * numerator
                + (CHOOSE digit \in 0..9 : Digits(digit) = SubSeq(text, 1, 1)),
              10 * denominator)

\* the while loop of isFunctionSignature after the opening parenthesis
RECURSIVE signatureFrom(_, _, _)
signatureFrom(tokens, index, expectsParam) ==
  IF index >= Len(tokens) THEN FALSE
  ELSE CASE tokens[index + 1].type = "rparen" ->
              index + 1 < Len(tokens) /\ tokens[index + 2].type = "arrow"
         [] tokens[index + 1].type = "comma" -> signatureFrom(tokens, index + 1, TRUE)
         [] tokens[index + 1].type = "identifier" ->
              expectsParam /\ signatureFrom(tokens, index + 1, FALSE)
         [] OTHER -> FALSE

isFunctionSignature(tokens, position) ==
  check(tokens, position, "lparen") /\ signatureFrom(tokens, position + 1, TRUE)

createBlockFromExpression(expression) ==
  [type |-> "block", statements |-> <<ExpressionStatement(expression)>>,
   asFunction |-> FALSE]

RECURSIVE parseInfix(_, _), parseCall(_, _), parsePrimary(_, _), parseIf(_, _),
          parseStatement(_, _), parseStatements(_, _, _, _),
          parseBlockWithConsumedBrace(_, _, _), parseArguments(_, _, _),
          infixFrom(_, _), callFrom(_, _), parseParams(_, _, _)

parseExpression(tokens, position) == parseInfix(tokens, position)

parseBlock(tokens, position, asFunction) ==
  After(consume(tokens, position, "lbrace", "Expected { to start block"),
        LAMBDA brace : parseBlockWithConsumedBrace(tokens, brace.position, asFunction))

\* a branch of an if or the body of a function: a block, or one expression
parseBlockOrExpression(tokens, position) ==
  IF check(tokens, position, "lbrace") THEN parseBlock(tokens, position, FALSE)
  ELSE After(parseExpression(tokens, position),
             LAMBDA expression :
               Parsed(createBlockFromExpression(expression.node), expression.position))

parseFunctionBody(tokens, position) ==
  parseBlockOrExpression(tokens, skipNewlines(tokens, position))

parseStatement(tokens, position) ==
  IF check(tokens, position, "let")
  THEN After(consume(tokens, position + 1, "identifier", "Expected identifier after let"),
         LAMBDA identifier :
           After(consume(tokens, identifier.position, "assign", "Expected = after identifier"),
             LAMBDA assigned :
               After(parseExpression(tokens, assigned.position),
                 LAMBDA parsed :
                   Parsed(LetStatement(identifier.node.value, parsed.node),
                          parsed.position))))
  ELSE IF /\ check(tokens, position, "identifier")
          /\ check(tokens, position + 1, "assign")
  THEN After(parseExpression(tokens, position + 2),
         LAMBDA parsed :
           Parsed(AssignmentStatement(current(tokens, position).value, parsed.node),
                  parsed.position))
  ELSE After(parseExpression(tokens, position),
         LAMBDA parsed : Parsed(ExpressionStatement(parsed.node), parsed.position))

\* the loop of parseProgram and of parseBlockWithConsumedBrace: the
\* statements up to the closing token, newlines skipped
parseStatements(tokens, position, closing, statements) ==
  IF check(tokens, skipNewlines(tokens, position), closing)
  THEN Parsed(statements, skipNewlines(tokens, position))
  ELSE After(parseStatement(tokens, skipNewlines(tokens, position)),
         LAMBDA statement :
           parseStatements(tokens, statement.position, closing,
                           Append(statements, statement.node)))

parseBlockWithConsumedBrace(tokens, position, asFunction) ==
  After(parseStatements(tokens, position, "rbrace", <<>>),
        LAMBDA parsed :
          Parsed([type |-> "block", statements |-> parsed.node, asFunction |-> asFunction],
                 parsed.position + 1))

parseProgram(tokens, position) == parseStatements(tokens, position, "eof", <<>>)

\* while (check identifier && INFIX_OPERATORS.has(value)): left is the
\* expression parsed so far
infixFrom(tokens, left) ==
  IF /\ check(tokens, left.position, "identifier")
     /\ current(tokens, left.position).value \in INFIX_OPERATORS
  THEN After(parseCall(tokens, left.position + 1),
         LAMBDA right :
           infixFrom(tokens,
             Parsed(InfixExpression(left.node, current(tokens, left.position).value,
                                    right.node),
                    right.position)))
  ELSE left

\* a mutant of parseInfix: the operators nest to the right
parseInfix_rightAssociative(tokens, position) ==
  After(parseCall(tokens, position),
    LAMBDA left :
      IF /\ check(tokens, left.position, "identifier")
         /\ current(tokens, left.position).value \in INFIX_OPERATORS
      THEN After(parseInfix(tokens, left.position + 1),
             LAMBDA right :
               Parsed(InfixExpression(left.node, current(tokens, left.position).value,
                                      right.node),
                      right.position))
      ELSE left)

parseInfix(tokens, position) ==
  After(parseCall(tokens, position), LAMBDA left : infixFrom(tokens, left))

\* do { args.push(parseExpression(cursor)) } while (match(cursor, 'comma'))
parseArguments(tokens, position, args) ==
  After(parseExpression(tokens, position),
    LAMBDA parsed :
      IF check(tokens, parsed.position, "comma")
      THEN parseArguments(tokens, parsed.position + 1, Append(args, parsed.node))
      ELSE Parsed(Append(args, parsed.node), parsed.position))

\* a mutant of the while loop of parseCall: a block is attached to any
\* expression, a call or not
callFrom_anyExpression(tokens, expression) ==
  IF check(tokens, expression.position, "lparen")
  THEN After(IF check(tokens, expression.position + 1, "rparen")
             THEN Parsed(<<>>, expression.position + 1)
             ELSE parseArguments(tokens, expression.position + 1, <<>>),
         LAMBDA args :
           After(consume(tokens, args.position, "rparen", "Expected ) to close arguments"),
             LAMBDA closed :
               callFrom(tokens,
                 Parsed(CallExpression(expression.node, args.node), closed.position))))
  ELSE IF check(tokens, expression.position, "lbrace")
  THEN After(parseBlock(tokens, expression.position, TRUE),
         LAMBDA blockArg :
           callFrom(tokens,
             Parsed(IF expression.node.type = "call"
                    THEN CallExpression(expression.node.callee,
                           Append(expression.node.args,
                                  [type |-> "blockFunction", block |-> blockArg.node]))
                    ELSE CallExpression(expression.node,
                           <<[type |-> "blockFunction", block |-> blockArg.node]>>),
                    blockArg.position)))
  ELSE expression

\* the while (true) loop of parseCall: expression is the expression parsed
\* so far
callFrom(tokens, expression) ==
  IF check(tokens, expression.position, "lparen")
  THEN After(IF check(tokens, expression.position + 1, "rparen")
             THEN Parsed(<<>>, expression.position + 1)
             ELSE parseArguments(tokens, expression.position + 1, <<>>),
         LAMBDA args :
           After(consume(tokens, args.position, "rparen", "Expected ) to close arguments"),
             LAMBDA closed :
               callFrom(tokens,
                 Parsed(CallExpression(expression.node, args.node), closed.position))))
  ELSE IF check(tokens, expression.position, "lbrace") /\ expression.node.type = "call"
  THEN After(parseBlock(tokens, expression.position, TRUE),
         LAMBDA blockArg :
           callFrom(tokens,
             Parsed(CallExpression(expression.node.callee,
                      Append(expression.node.args,
                             [type |-> "blockFunction", block |-> blockArg.node])),
                    blockArg.position)))
  ELSE expression

parseCall(tokens, position) ==
  After(parsePrimary(tokens, position), LAMBDA expression : callFrom(tokens, expression))

\* do { params.push(consume identifier) } while (match(cursor, 'comma'))
parseParams(tokens, position, params) ==
  After(consume(tokens, position, "identifier", "Expected parameter name"),
    LAMBDA param :
      IF check(tokens, param.position, "comma")
      THEN parseParams(tokens, param.position + 1, Append(params, param.node.value))
      ELSE Parsed(Append(params, param.node.value), param.position))

parsePrimary(tokens, position) ==
  CASE check(tokens, position, "number") ->
         Parsed([type |-> "number", num |-> Number(current(tokens, position).value, 0, 0)],
                position + 1)
    [] check(tokens, position, "string") ->
         Parsed(StringLiteral(current(tokens, position).value), position + 1)
    [] check(tokens, position, "true") -> Parsed(BooleanLiteral(TRUE), position + 1)
    [] check(tokens, position, "false") -> Parsed(BooleanLiteral(FALSE), position + 1)
    [] check(tokens, position, "null") -> Parsed(NullLiteral, position + 1)
    [] check(tokens, position, "identifier") ->
         Parsed(Identifier(current(tokens, position).value), position + 1)
    [] check(tokens, position, "if") -> parseIf(tokens, position + 1)
    [] check(tokens, position, "lparen") /\ isFunctionSignature(tokens, position) ->
         After(IF check(tokens, position + 1, "rparen")
               THEN Parsed(<<>>, position + 1)
               ELSE parseParams(tokens, position + 1, <<>>),
           LAMBDA params :
             After(consume(tokens, params.position, "rparen",
                           "Expected ) after parameter list"),
               LAMBDA closed :
                 After(consume(tokens, closed.position, "arrow",
                               "Expected => after parameter list"),
                   LAMBDA arrow :
                     After(parseFunctionBody(tokens, arrow.position),
                       LAMBDA body :
                         Parsed([type |-> "function", params |-> params.node,
                                 body |-> body.node],
                                body.position)))))
    [] check(tokens, position, "lparen") /\ ~isFunctionSignature(tokens, position) ->
         After(parseExpression(tokens, position + 1),
           LAMBDA expression :
             After(consume(tokens, expression.position, "rparen",
                           "Expected ) after expression"),
               LAMBDA closed : Parsed(expression.node, closed.position)))
    [] check(tokens, position, "lbrace") ->
         parseBlockWithConsumedBrace(tokens, position + 1, FALSE)
    [] OTHER ->
         [node |-> NullLiteral, position |-> position,
          error |-> "Unexpected token " \o current(tokens, position).type]

\* the else part of parseIf, after the then branch
parseElse(tokens, position, condition, thenBranch) ==
  IF ~check(tokens, skipNewlines(tokens, position), "else")
  THEN Parsed([type |-> "if", condition |-> condition, thenBranch |-> thenBranch],
              skipNewlines(tokens, position))
  ELSE After(IF check(tokens, skipNewlines(tokens, skipNewlines(tokens, position) + 1), "if")
             THEN After(parseIf(tokens,
                          skipNewlines(tokens, skipNewlines(tokens, position) + 1) + 1),
                    LAMBDA nestedIf :
                      Parsed(createBlockFromExpression(nestedIf.node), nestedIf.position))
             ELSE parseBlockOrExpression(tokens,
                    skipNewlines(tokens, skipNewlines(tokens, position) + 1)),
         LAMBDA elseBranch :
           Parsed([type |-> "if", condition |-> condition, thenBranch |-> thenBranch,
                   elseBranch |-> elseBranch.node],
                  elseBranch.position))

parseIf(tokens, position) ==
  After(parseExpression(tokens, position),
    LAMBDA condition :
      After(parseBlockOrExpression(tokens, skipNewlines(tokens, condition.position)),
        LAMBDA thenBranch :
          parseElse(tokens, thenBranch.position, condition.node, thenBranch.node)))

\* parse(source): [statements, error], the program or the error thrown by
\* tokenize or by parseProgram
parse(source) ==
  IF tokenize(source).error # NoError
  THEN [statements |-> <<>>, error |-> tokenize(source).error]
  ELSE IF parseProgram(tokenize(source).tokens, 0).error # NoError
  THEN [statements |-> <<>>, error |-> parseProgram(tokenize(source).tokens, 0).error]
  ELSE [statements |-> parseProgram(tokenize(source).tokens, 0).node, error |-> NoError]

(***************************************************************************)
(* SpecParse: evaluateSource(source) in a fresh process (index.ts): the    *)
(* source is parsed, then run statement by statement.  A source carries    *)
(* the parts it was written from in its input.                             *)
(***************************************************************************)
MaxOperands == 4

Source(label, input, text) ==
  Labelled(label, [text |-> text, parts |-> input], <<>>)

RECURSIVE Joined(_)
Joined(words) ==
  IF Len(words) = 1 THEN words[1] ELSE words[1] \o " " \o Joined(Tail(words))

\* e1 op1 e2 op2 e3 ...: operands[i] and operators[i] in turn
RECURSIVE InfixWords(_, _)
InfixWords(operands, operators) ==
  IF operators = <<>> THEN <<operands[1]>>
  ELSE <<operands[1], operators[1]>> \o InfixWords(Tail(operands), Tail(operators))

InfixSource(operands, operators) ==
  Source("infix", [operands |-> operands, operators |-> operators],
         Joined(InfixWords(operands, operators)))

InfixOperands == {"1", "2", "3", "(1 + 1)"}

InfixOperators == {"plus", "minus", "times", "+", "-", "*"}

InfixSources ==
  {InfixSource(operands, operators) :
     operands \in [1..3 -> InfixOperands], operators \in [1..2 -> InfixOperators]}
  \cup {InfixSource(operands, operators) :
          operands \in [1..MaxOperands -> {"2", "3"}],
          operators \in [1..(MaxOperands - 1) -> {"plus", "times", "-"}]}

\* a callee that calls its last parameter, b, a number of times
RECURSIVE BlockCalls(_)
BlockCalls(times) == IF times = 0 THEN "" ELSE "b()\n" \o BlockCalls(times - 1)

BlockShapes == {"global", "local", "notCall", "parenthesised"}

MaxBlockCalls == 2

\* interpreter.test.ts, pseudo keywords with trailing blocks: the block
\* n = n plus 1 written after a call of f with args arguments (global), after
\* such a call in the body of a function (local), after an identifier
\* (notCall) and after a parenthesised identifier (parenthesised)
BlockSource(shape, times, args) ==
  Source("block", [shape |-> shape, times |-> times, args |-> args],
    CASE shape = "global" ->
           "let n = 0\nlet f = (" \o (IF args = 1 THEN "a, " ELSE "") \o "b) => {"
             \o BlockCalls(times) \o "}\nf(" \o (IF args = 1 THEN "7" ELSE "")
             \o ") { n = n plus 1 }\nn"
      [] shape = "local" ->
           "let f = (b) => {" \o BlockCalls(times)
             \o "}\nlet g = () => {\nlet n = 0\nf() { n = n plus 1 }\nn }\ng()"
      [] shape = "notCall" -> "let n = 0\nlet x = 5\nx { n = n plus 1 }\nn = n plus x"
      [] shape = "parenthesised" ->
           "let n = 0\nlet x = 5\n(x) { n = n plus 1 }\nn")

BlockSources ==
  {BlockSource("global", times, args) : times \in 0..MaxBlockCalls, args \in 0..1}
  \cup {BlockSource("local", times, 0) : times \in 0..MaxBlockCalls}
  \cup {BlockSource("notCall", 0, 0), BlockSource("parenthesised", 0, 0)}

MaxItems == 3

SignatureSymbols == {"a", "b", ",", "(", ")", "1"}

\* ( items ) with or without => 1 after it: the items are up to MaxItems
\* identifiers, commas, parentheses and numbers in any order
SignatureSource(items, arrow) ==
  Source("signature", [items |-> items, arrow |-> arrow],
    "(" \o (IF items = <<>> THEN "" ELSE Joined(items)) \o ")"
        \o (IF arrow THEN " => 1" ELSE ""))

SignatureSources ==
  {SignatureSource(items, arrow) :
     items \in UNION {[1..n -> SignatureSymbols] : n \in 0..MaxItems}, arrow \in BOOLEAN}

IfConditions == {"1", "1 lessThan 2", "f(1) equals 1", "f(1)", "1 plus f(1)", "(f(1))"}

IfForms == {"brace", "bare", "noElse", "elseIf"}

\* an if with condition c after the definition of f: with both branches in
\* braces (brace), both bare expressions (bare), no else (noElse), or an
\* else if with the same condition (elseIf)
IfSource(c, form) ==
  Source("ifSource", [condition |-> c, form |-> form],
    "let f = (a) => a\n"
      \o (CASE form = "brace" -> "if " \o c \o " { 10 } else { 20 }"
            [] form = "bare" -> "if " \o c \o " 10 else 20"
            [] form = "noElse" -> "if " \o c \o " { 10 }"
            [] form = "elseIf" ->
                 "if " \o c \o " { 10 } else if " \o c \o " { 20 } else { 30 }"))

IfSources == {IfSource(c, form) : c \in IfConditions, form \in IfForms}

Sources == InfixSources \cup BlockSources \cup SignatureSources \cup IfSources

InitParse ==
  /\ program \in Sources
  /\ pc = 0
  /\ Loaded
  /\ last = [op |-> "evaluateSource"]

\* const program = parse(source)
Parse ==
  /\ pc = 0
  /\ program' = [program EXCEPT !.statements = parse(program.input.text).statements]
  /\ error' = parse(program.input.text).error
  /\ pc' = 1
  /\ UNCHANGED <<envs, iterators, canvases, console, methodRegistry, calls, value, last>>

NextParse == Parse \/ Let \/ Assignment \/ Expression

SpecParse == InitParse /\ [][NextParse]_vars

\* the method an operator of a source names
OperatorMethod(operator) ==
  CASE operator \in {"plus", "+"} -> "plus"
    [] operator \in {"minus", "-"} -> "minus"
    [] operator \in {"times", "*"} -> "times"

OperandNumber(operand) ==
  IF operand = "(1 + 1)" THEN 2 ELSE CHOOSE i \in 1..3 : Digits(i) = operand

OperandNode(operand) ==
  IF operand = "(1 + 1)" THEN InfixExpression(NumberLiteral(1), "plus", NumberLiteral(1))
  ELSE NumberLiteral(OperandNumber(operand))

\* ((e1 op1 e2) op2 e3) ...: the node, the operands up to the k-th taken
RECURSIVE LeftNested(_, _, _)
LeftNested(operands, operators, k) ==
  IF k = 1 THEN OperandNode(operands[1])
  ELSE InfixExpression(LeftNested(operands, operators, k - 1),
                       OperatorMethod(operators[k - 1]), OperandNode(operands[k]))

\* the number ((e1 op1 e2) op2 e3) ... stands for
RECURSIVE LeftValue(_, _, _)
LeftValue(operands, operators, k) ==
  IF k = 1 THEN OperandNumber(operands[1])
  ELSE CASE OperatorMethod(operators[k - 1]) = "plus" ->
              LeftValue(operands, operators, k - 1) + OperandNumber(operands[k])
         [] OperatorMethod(operators[k - 1]) = "minus" ->
              LeftValue(operands, operators, k - 1) - OperandNumber(operands[k])
         [] OperatorMethod(operators[k - 1]) = "times" ->
              LeftValue(operands, operators, k - 1) * OperandNumber(operands[k])

\* C12: a chain of infix operators e1 op1 e2 op2 e3 ... parses to the
\* left-nested expression ((e1 op1 e2) op2 e3) ... whatever the operators,
\* and evaluates to the number the left-nested expression stands for
C12_LeftAssociative ==
  program.label = "infix" /\ pc >= 1 =>
    /\ error = NoError
    /\ program.statements =
         <<ExpressionStatement(LeftNested(program.input.parts.operands,
                                          program.input.parts.operators,
                                          Len(program.input.parts.operands)))>>
    /\ pc = 2 =>
         value = Num(LeftValue(program.input.parts.operands,
                               program.input.parts.operators,
                               Len(program.input.parts.operands)))

C12_Witness ==
  /\ program.label = "infix"
  /\ program.input.text \in {"1 plus 2 times 3", "1 + 2 * 3"}
  /\ pc = 2
  /\ value = Num(9)

(***************************************************************************)
(* C13: a brace block written directly after a call.                       *)
(***************************************************************************)
\* the statement n = n plus 1 of the block of a block source
BlockBody == <<AssignmentStatement("n", Op(Id("n"), "plus", NumberLiteral(1)))>>

\* the call f(a1, ..., an, g) of a block source
BlockCall(args) ==
  Expr(Call("f", (IF args = 1 THEN <<NumberLiteral(7)>> ELSE <<>>)
                   \o <<BlockFunctionExpression(BlockBody)>>))

\* the calls logged of the function the block evaluates to in environment e
CallsOfBlock(e) ==
  {i \in DOMAIN calls :
     calls[i].fn = UserFunctionValue(<<>>, BlockFunctionExpression(BlockBody).block, e)}

\* C13: a brace block directly after a call is parsed as one more, last
\* argument of that call, a function without parameters that closes over the
\* environment of the call site; a block after an expression that is not a
\* call is a statement of its own.  The block runs as many times as the
\* callee calls its last argument, and its assignments change the bindings
\* of the call site.
C13_TrailingBlock ==
  program.label = "block" /\ pc >= 1 =>
    LET parts == program.input.parts
        done == pc > Len(program.statements)
    IN  /\ error = NoError
        /\ parts.shape = "global" =>
             /\ program.statements[3] = BlockCall(parts.args)
             /\ done =>
                  /\ Cardinality(CallsOfBlock(GlobalEnv)) = parts.times
                  /\ \A i \in DOMAIN calls :
                       calls[i].fn.native \/ calls[i].fn.params # <<>>
                         \/ i \in CallsOfBlock(GlobalEnv)
                  /\ envs[GlobalEnv].values["n"] = Num(parts.times)
                  /\ value = Num(parts.times)
        /\ parts.shape = "local" =>
             /\ program.statements[2].value.body.statements[2] = BlockCall(0)
             /\ done =>
                  \E e \in (GlobalEnv + 1)..Len(envs) :
                    /\ envs[e].parent = GlobalEnv
                    /\ Cardinality(CallsOfBlock(e)) = parts.times
                    /\ envs[e].values["n"] = Num(parts.times)
                    /\ "n" \notin DOMAIN envs[GlobalEnv].values
                    /\ value = Num(parts.times)
        /\ parts.shape \in {"notCall", "parenthesised"} =>
             /\ program.statements[3] = Expr(Id("x"))
             /\ program.statements[4] = Expr(BlockExpression(BlockBody))
             /\ calls = <<>>

C13_Witness ==
  /\ program.label = "block"
  /\ program.input.parts = [shape |-> "global", times |-> 2, args |-> 1]
  /\ pc = 5
  /\ Cardinality(CallsOfBlock(GlobalEnv)) = 2
  /\ value = Num(2)

C13_WitnessLocal ==
  /\ program.label = "block"
  /\ program.input.parts = [shape |-> "local", times |-> 2, args |-> 0]
  /\ pc = 4
  /\ value = Num(2)

(***************************************************************************)
(* C14: if.  In an if program the environment of the if is the global one  *)
(* or the one of the function call around it, created second.              *)
(***************************************************************************)
\* C14: an if evaluates its condition once, then the then-branch when the
\* condition is truthy, the else-branch when it is falsy and there is one,
\* and nothing otherwise, yielding null; the branch runs in a new child of
\* the environment of the if, so what it defines with let is not there
\* after the if
C14_IfBranches ==
  program.label = "if" =>
    LET input == program.input
        ran == input.truthy \/ input.hasElse
        x == IF input.truthy THEN 2 ELSE 3
        scope == IF input.place = "global" THEN GlobalEnv ELSE GlobalEnv + 1
    IN  /\ pc <= 7 => error = NoError
        /\ pc >= 5 =>
             /\ envs[GlobalEnv].values["log"] =
                  makeString(IF ~ran THEN "c" ELSE IF input.truthy THEN "ct" ELSE "ce")
             /\ envs[GlobalEnv].values["x"] = Num(1)
             /\ "y" \notin DOMAIN envs[GlobalEnv].values
             /\ "y" \notin DOMAIN envs[scope].values
             /\ Len(envs) = scope + 1 + (IF ran THEN 1 ELSE 0)
             /\ ran =>
                  /\ envs[Len(envs)].parent = scope
                  /\ envs[Len(envs)].values["x"] = Num(x)
                  /\ envs[Len(envs)].values["y"] = Num(x)
             /\ input.place = "function" => envs[scope].values["x"] = Num(10)
        /\ pc = 5 => value = IF ran THEN Num(x) ELSE NULL_VALUE
        /\ pc = 6 => value = Num(1)
        /\ pc = 8 => error = "Undefined variable y"

C14_Witness ==
  /\ program.label = "if"
  /\ program.input.place = "function"
  /\ program.input.condition = NumberLiteral(0)
  /\ program.input.hasElse
  /\ pc = 8
  /\ envs[GlobalEnv].values["log"] = makeString("ce")
  /\ envs[4].parent = 2
  /\ envs[4].values["x"] = Num(3)

C14_WitnessNoElse ==
  /\ program.label = "if"
  /\ program.input.condition = NullLiteral
  /\ ~program.input.hasElse
  /\ pc = 5
  /\ value = NULL_VALUE

(***************************************************************************)
(* C15: truthiness.                                                        *)
(***************************************************************************)
\* C15: if and while take null, false, the number 0 and the empty string
\* for false and every other value for true: every other boolean, number
\* and string, every function, iterator and canvas
C15_Truthiness ==
  program.label = "truth" =>
    /\ error = NoError
    /\ pc = 3 => value = Num(IF program.input.truthy THEN 1 ELSE 0)
    /\ pc >= 4 => envs[GlobalEnv].values["n"] = Num(IF program.input.truthy THEN 1 ELSE 0)
    /\ pc = 5 => value = Num(IF program.input.truthy THEN 1 ELSE 0)

C15_Witness ==
  /\ program.label = "truth"
  /\ program.input.expression = Op(NumberLiteral(0), "minus", NumberLiteral(1))
  /\ pc = 5
  /\ value = Num(1)

C15_WitnessCanvas ==
  /\ program.label = "truth"
  /\ program.input.expression = Call("canvas", <<NumberLiteral(1), NumberLiteral(1)>>)
  /\ pc = 5
  /\ Len(canvases) = 2
  /\ value = Num(1)

(***************************************************************************)
(* C16: lexical scoping.  In a lexical program the callee has captured the *)
(* global environment or, when made by a call, the environment of that     *)
(* call, the second one; the call of the caller creates the next one and   *)
(* the two calls of the callee the two after it.                           *)
(***************************************************************************)
\* C16: each call of a user function runs the body in one new child of the
\* environment the function was created in, never of the caller's: a free
\* name of the body is read and assigned in the creating scope chain, the
\* caller's binding of that name is neither read nor changed, and a let of
\* the body is in neither the captured nor the caller's environment
C16_LexicalScope ==
  program.label = "lexical" =>
    LET kind == program.input.kind
        captured == IF program.input.made THEN GlobalEnv + 1 ELSE GlobalEnv
        callerEnv == captured + 1
        x == (IF program.input.made THEN 5 ELSE 1) + (IF kind = "assign" THEN 20 ELSE 0)
    IN  /\ pc <= 6 => error = NoError
        /\ pc >= 5 =>
             /\ Len(envs) = callerEnv + 2
             /\ envs[callerEnv].parent = GlobalEnv
             /\ envs[callerEnv].values["x"] = Num(2)
             /\ envs[captured].values["x"] = Num(x)
             /\ envs[GlobalEnv].values["x"] = IF program.input.made THEN Num(1) ELSE Num(x)
             /\ "z" \notin DOMAIN envs[captured].values
             /\ "z" \notin DOMAIN envs[callerEnv].values
             /\ "z" \notin DOMAIN envs[GlobalEnv].values
             /\ \A e \in {callerEnv + 1, callerEnv + 2} :
                  /\ envs[e].parent = captured
                  /\ "x" \notin DOMAIN envs[e].values
                  /\ kind = "let" => envs[e].values["z"] = Num(7)
        /\ pc = 5 => value = Num(x)
        /\ pc = 6 => value = IF program.input.made THEN Num(1) ELSE Num(x)
        /\ pc = 7 => error = "Undefined variable z"

C16_Witness ==
  /\ program.label = "lexical"
  /\ program.input = [kind |-> "assign", made |-> TRUE]
  /\ pc = 6
  /\ envs[2].values["x"] = Num(25)
  /\ envs[3].values["x"] = Num(2)
  /\ envs[5].parent = 2
  /\ value = Num(1)

C16_WitnessLet ==
  /\ program.label = "lexical"
  /\ program.input = [kind |-> "let", made |-> FALSE]
  /\ pc = 7
  /\ envs[4].values["z"] = Num(7)
  /\ error = "Undefined variable z"

(***************************************************************************)
(* C17: the arguments of a user function.  In an arity program the         *)
(* environment of the call is the second one.                              *)
(***************************************************************************)
\* C17: a call of a function of n parameters with m arguments binds
\* parameter i to argument i up to the smaller of n and m, binds the
\* parameters beyond m to null, binds nothing for the arguments beyond n,
\* and does not fail
C17_ArityTolerated ==
  program.label = "arity" =>
    /\ error = NoError
    /\ pc = 3 =>
         /\ Len(envs) = 2
         /\ DOMAIN envs[2].values = {Params(program.input.n)[i] : i \in 1..program.input.n}
         /\ \A i \in 1..program.input.n :
              envs[2].values[Params(program.input.n)[i]] =
                IF i <= program.input.m THEN Num(10 + i) ELSE NULL_VALUE
         /\ calls[1].args = [i \in 1..program.input.m |-> Num(10 + i)]
         /\ value = IF program.input.n = 0 THEN Num(0)
                    ELSE IF program.input.n <= program.input.m THEN Num(10 + program.input.n)
                    ELSE NULL_VALUE

C17_Witness ==
  /\ program.label = "arity"
  /\ program.input = [n |-> 3, m |-> 1]
  /\ pc = 3
  /\ envs[2].values["p1"] = Num(11)
  /\ envs[2].values["p3"] = NULL_VALUE
  /\ value = NULL_VALUE

C17_WitnessExtra ==
  /\ program.label = "arity"
  /\ program.input = [n |-> 1, m |-> 3]
  /\ pc = 3
  /\ DOMAIN envs[2].values = {"p1"}
  /\ value = Num(11)

(***************************************************************************)
(* C18: a for whose iterable is not an iterator.                           *)
(***************************************************************************)
\* C18: a for over a number, a string, a boolean, null, a function or a
\* canvas fails with the error that for expects an iterator, before an
\* environment is created for the loop, before the loop variable is bound
\* and before the body runs
C18_ForRequiresIterator ==
  program.label = "for-bad" =>
    /\ pc <= 2 => error = NoError
    /\ pc = 3 =>
         /\ error = "for expects an iterator iterable"
         /\ Len(envs) = 1
         /\ \A e \in DOMAIN envs : "i" \notin DOMAIN envs[e].values
         /\ envs[GlobalEnv].values["log"] = makeString("")
         /\ iterators = <<>>
    /\ pc <= 3

C18_Witness ==
  /\ program.label = "for-bad"
  /\ program.input.iterable = Call("canvas", <<NumberLiteral(1), NumberLiteral(1)>>)
  /\ pc = 3
  /\ Len(canvases) = 1
  /\ error = "for expects an iterator iterable"

(***************************************************************************)
(* C19: a for over an iterator.  In a for program the loop environment is  *)
(* the second one and the environments of the body runs come after it.     *)
(***************************************************************************)
\* the numbers a range from start towards end steps through, the k-th
ForStep(input, k) ==
  IF input.start <= input.end THEN input.start + (k - 1) ELSE input.start - (k - 1)

\* how many steps of the range are not done
ForSteps(input) ==
  (IF input.start <= input.end THEN input.end - input.start ELSE input.start - input.end)
    + (IF input.inclusive THEN 1 ELSE 0)

\* the product and the log after the first k body runs
RECURSIVE ForProduct(_, _)
ForProduct(input, k) == IF k = 0 THEN 1 ELSE ForProduct(input, k - 1) * ForStep(input, k)

RECURSIVE ForLog(_, _)
ForLog(input, k) == IF k = 0 THEN "" ELSE ForLog(input, k - 1) \o Digits(ForStep(input, k))

\* C19: a for runs its body once for each step of the iterator that is not
\* done, in the order of the steps, the loop variable holding the value of
\* the step; it stops at the first done step, and its value is the result
\* of the last run of the body, or null when the body never ran.  From
\* product = 1, the for over 1...4 that multiplies product by the loop
\* variable leaves 24.
C19_ForRuns ==
  program.label = "for" =>
    LET input == program.input
        n == ForSteps(input)
    IN  /\ error = NoError
        /\ pc >= 5 =>
             /\ envs[GlobalEnv].values["log"] = makeString(ForLog(input, n))
             /\ envs[GlobalEnv].values["product"] = Num(ForProduct(input, n))
             /\ envs[2].parent = GlobalEnv
             /\ envs[2].values["i"] = IF n = 0 THEN NULL_VALUE ELSE Num(ForStep(input, n))
             /\ \A k \in 1..n : envs[2 + k].parent = 2
             /\ iterators[1].current = Int2Num(ForStep(input, n + 1))
        /\ pc = 5 =>
             /\ Len(envs) = 2 + n
             /\ value = IF n = 0 THEN NULL_VALUE ELSE Num(ForProduct(input, n))
        /\ pc = 8 =>
             /\ Len(envs) = 3 + n
             /\ value = NULL_VALUE

C19_Witness ==
  /\ program.label = "for"
  /\ program.input = [start |-> 1, end |-> 4, inclusive |-> TRUE]
  /\ pc = 6
  /\ envs[GlobalEnv].values["log"] = makeString("1234")
  /\ value = Num(24)

C19_WitnessNever ==
  /\ program.label = "for"
  /\ program.input = [start |-> 2, end |-> 2, inclusive |-> FALSE]
  /\ pc = 5
  /\ value = NULL_VALUE

(***************************************************************************)
(* C20: the dispatch of an infix expression.                               *)
(***************************************************************************)
\* C20: l op r calls the method named op of the kind of l, with l as the
\* receiver and r as the one argument: a number method fails on an r that
\* is not a number, a boolean method on an r that is not a boolean, and
\* string plus takes any r.  When the kind of l has no method named op the
\* evaluation fails with the unknown-operator error that names op and the
\* kind, whatever r is.
C20_InfixDispatch ==
  program.label = "dispatch" /\ pc = 2 =>
    LET l == program.input.left
        r == program.input.right
        op == program.input.operator
    IN  IF l.kind = "number" /\ op \in {"plus", "minus", "equals", "lessThan", "rangeInclusive"}
        THEN IF r.kind # "number" THEN error = op \o " expects a number argument"
             ELSE /\ error = NoError
                  /\ op = "plus" => value = Num(l.n + r.n)
                  /\ op = "minus" => value = Num(l.n - r.n)
                  /\ op = "equals" => value = makeBoolean(l.n = r.n)
                  /\ op = "lessThan" => value = makeBoolean(l.n < r.n)
                  /\ op = "rangeInclusive" =>
                       /\ value = IteratorValue(Len(iterators))
                       /\ iterators[Len(iterators)].current = Int2Num(l.n)
                       /\ iterators[Len(iterators)].end = Int2Num(r.n)
        ELSE IF l.kind = "string" /\ op = "plus"
        THEN /\ error = NoError
             /\ value = makeString(l.text \o r.text)
        ELSE IF l.kind = "boolean" /\ op \in {"and", "equals"}
        THEN IF r.kind # "boolean" THEN error = op \o " expects a boolean argument"
             ELSE /\ error = NoError
                  /\ value = makeBoolean(IF op = "and" THEN l.b /\ r.b ELSE l.b = r.b)
        ELSE error = "Unknown operator " \o op \o " for " \o l.kind

C20_Witness ==
  /\ program.label = "dispatch"
  /\ program.input.left.kind = "string"
  /\ program.input.operator = "minus"
  /\ program.input.right.kind = "number"
  /\ pc = 2
  /\ error = "Unknown operator minus for string"

C20_WitnessBoolean ==
  /\ program.label = "dispatch"
  /\ program.input.left.kind = "boolean"
  /\ program.input.operator = "lessThan"
  /\ program.input.right.kind = "canvas"
  /\ pc = 2
  /\ Len(canvases) = 1
  /\ error = "Unknown operator lessThan for boolean"

C20_WitnessNumber ==
  /\ program.label = "dispatch"
  /\ program.input.left.kind = "number"
  /\ program.input.operator = "plus"
  /\ program.input.right.kind = "string"
  /\ pc = 2
  /\ error = "plus expects a number argument"

(***************************************************************************)
(* C21: a failure aborts the run.                                          *)
(***************************************************************************)
\* the message of each kind of failure
FailureMessage(failure) ==
  CASE failure = "name" -> "Undefined variable nope"
    [] failure = "call" -> "Attempted to call a non-function value"
    [] failure = "operator" -> "Unknown operator plus for null"
    [] failure = "native" -> "canvasWidth expects a canvas"
    [] failure = "for" -> "for expects an iterator iterable"

\* C21: a failure ends the run where it occurs.  No step is taken once the
\* run has failed; and when the fifth statement of an abort program has
\* failed, the run holds the failure, only what came before the failing
\* expression has been evaluated (one call of mark in the loop and in the
\* function, none elsewhere), nothing was printed, v is not bound and the
\* loop has not gone on
C21_FailureAborts ==
  [][/\ error = NoError
     /\ program.label = "abort" /\ pc' = 6 =>
          LET marked == program.input.place \in {"loop", "function"}
          IN  /\ error' = FailureMessage(program.input.failure)
              /\ envs'[GlobalEnv].values["log"] = makeString(IF marked THEN "m" ELSE "")
              /\ canvases'[1].pixels = IF marked THEN <<9, 9, 9, 255>> ELSE <<0, 0, 0, 255>>
              /\ Len(calls') = (CASE program.input.place = "loop" -> 1
                                  [] program.input.place = "function" -> 3
                                  [] OTHER -> 0)
              /\ console' = <<>>
              /\ "v" \notin DOMAIN envs'[GlobalEnv].values
              /\ program.input.place = "loop" =>
                   iterators'[Len(iterators')].current = Int2Num(1)]_vars

C21_Witness ==
  /\ program.label = "abort"
  /\ program.input = [failure |-> "operator", place |-> "loop"]
  /\ pc = 6
  /\ error = "Unknown operator plus for null"
  /\ envs[GlobalEnv].values["log"] = makeString("m")
  /\ canvases[1].pixels = <<9, 9, 9, 255>>

C21_WitnessArgument ==
  /\ program.label = "abort"
  /\ program.input = [failure |-> "name", place |-> "argument"]
  /\ pc = 6
  /\ error = "Undefined variable nope"
  /\ console = <<>>

(***************************************************************************)
(* C22: the lookahead for the signature of a function.                     *)
(***************************************************************************)
\* the items are a list of identifiers with one comma between any two
SeparatedIdentifiers(items) ==
  \/ items = <<>>
  \/ /\ Len(items) % 2 = 1
     /\ \A i \in DOMAIN items :
          IF i % 2 = 1 THEN items[i] \in {"a", "b"} ELSE items[i] = ","

\* C22: the lookahead at ( answers true exactly when the tokens are (, a
\* list of identifiers with a comma between any two, no comma leading,
\* trailing or doubled, nothing nested, then ) and =>; and the parser
\* parses a function expression only when it answers true
C22_SignatureLookahead ==
  program.label = "signature" /\ pc >= 1 =>
    /\ isFunctionSignature(tokenize(program.input.text).tokens, 0)
         <=> (program.input.parts.arrow /\ SeparatedIdentifiers(program.input.parts.items))
    /\ (error = NoError /\ program.statements[1].type = "expression"
          /\ program.statements[1].expression.type = "function")
         => isFunctionSignature(tokenize(program.input.text).tokens, 0)

C22_Witness ==
  /\ program.label = "signature"
  /\ program.input.text = "(a ,) => 1"
  /\ pc = 1
  /\ isFunctionSignature(tokenize(program.input.text).tokens, 0)
  /\ error = "Expected parameter name at token rparen (5)"

(***************************************************************************)
(* C23: the shape of a parsed if.                                          *)
(***************************************************************************)
\* the node of a condition of an if source
IfCondition(c) ==
  CASE c = "1" -> NumberLiteral(1)
    [] c = "1 lessThan 2" -> Op(NumberLiteral(1), "lessThan", NumberLiteral(2))
    [] c = "f(1) equals 1" -> Op(Call("f", <<NumberLiteral(1)>>), "equals", NumberLiteral(1))
    [] c = "f(1)" -> Call("f", <<NumberLiteral(1)>>)
    [] c = "1 plus f(1)" -> Op(NumberLiteral(1), "plus", Call("f", <<NumberLiteral(1)>>))
    [] c = "(f(1))" -> Call("f", <<NumberLiteral(1)>>)

\* the if node of an if source: every branch is a block
IfNode(c, form) ==
  CASE form \in {"brace", "bare"} ->
         IfElseExpression(IfCondition(c), <<Expr(NumberLiteral(10))>>,
                          <<Expr(NumberLiteral(20))>>)
    [] form = "noElse" -> IfExpression(IfCondition(c), <<Expr(NumberLiteral(10))>>)
    [] form = "elseIf" ->
         IfElseExpression(IfCondition(c), <<Expr(NumberLiteral(10))>>,
           <<Expr(IfElseExpression(IfCondition(c), <<Expr(NumberLiteral(20))>>,
                                   <<Expr(NumberLiteral(30))>>))>>)

\* C23: if C { A } else { B } parses, for every condition C and also one
\* that ends in a call, to one if node with condition C, then-branch the
\* block A and else-branch the block B; with bare branches, without else and
\* with else if, too, every branch of the if is a block node
C23_IfShape ==
  program.label = "ifSource" /\ pc >= 1 =>
    /\ error = NoError
    /\ Len(program.statements) = 2
    /\ program.statements[2] = Expr(IfNode(program.input.parts.condition,
                                           program.input.parts.form))

C23_Witness ==
  /\ program.label = "ifSource"
  /\ program.input.parts = [condition |-> "f(1)", form |-> "brace"]
  /\ pc = 1
  /\ error = "Unexpected token else"

(***************************************************************************)
(* C24: the scopes of a for.  In a loop-scope program the loop environment *)
(* is created second and the environments of the iterations after it.      *)
(***************************************************************************)
\* the log after the first k iterations, each one starting with prefix
RECURSIVE LoopLog(_, _)
LoopLog(k, prefix) == IF k = 0 THEN "" ELSE LoopLog(k - 1, prefix) \o prefix \o Digits(k)

\* C24: every iteration of a for runs its body in a new child of the one
\* loop environment.  What an iteration binds with let is not there at the
\* start of the next iteration (a read of it finds the binding made before
\* the for, or fails) and not after the loop; after the for, neither the
\* loop variable nor a let of the body is bound in the environment of the
\* for statement.
C24_IterationScopes ==
  program.label = "loop-scope" /\ pc >= 4 =>
    LET input == program.input
        n == input.end
        failed == input.body = "next" /\ n >= 2
    IN  /\ "i" \notin DOMAIN envs[GlobalEnv].values
        /\ "t" \in DOMAIN envs[GlobalEnv].values <=> input.body = "outer"
        /\ input.body = "outer" => envs[GlobalEnv].values["t"] = makeString("o")
        /\ envs[2] = [parent |-> GlobalEnv,
                      values |-> "i" :> Num(IF failed THEN 2 ELSE n)]
        /\ envs[3] = [parent |-> 2, values |-> "t" :> Num(1)]
        /\ IF failed
           THEN /\ error = "Undefined variable t"
                /\ pc = 4
                /\ envs[GlobalEnv].values["log"] = makeString("1")
                /\ envs[4] = [parent |-> 2, values |-> <<>>]
           ELSE /\ envs[GlobalEnv].values["log"]
                     = makeString(LoopLog(n, IF input.body = "outer" THEN "o" ELSE ""))
                /\ Len(envs) = 2 + n
                /\ \A k \in 1..n : envs[2 + k] = [parent |-> 2, values |-> "t" :> Num(k)]
                /\ pc = 4 => error = NoError
                /\ pc = 5 =>
                     CASE input.probe = "log" -> error = NoError
                       [] input.probe = "i" -> error = "Undefined variable i"
                       [] input.probe = "t" ->
                            IF input.body = "outer"
                            THEN error = NoError /\ value = makeString("o")
                            ELSE error = "Undefined variable t"

C24_Witness ==
  /\ program.label = "loop-scope"
  /\ program.input = [end |-> 3, body |-> "outer", probe |-> "t"]
  /\ pc = 5
  /\ envs[GlobalEnv].values["log"] = makeString("o1o2o3")
  /\ value = makeString("o")

C24_WitnessNext ==
  /\ program.label = "loop-scope"
  /\ program.input.end = 3 /\ program.input.body = "next"
  /\ pc = 4
  /\ error = "Undefined variable t"

C24_WitnessAfter ==
  /\ program.label = "loop-scope"
  /\ program.input = [end |-> 2, body |-> "plain", probe |-> "i"]
  /\ pc = 5
  /\ error = "Undefined variable i"

(***************************************************************************)
(* SpecDraw: the host creates up to MaxBuffers canvases and makes up to    *)
(* MaxDraws setPixel and fillCanvas calls on them, calls that succeed and  *)
(* calls that fail at each of the checks.  pc counts the draw calls and    *)
(* last keeps the latest call.                                             *)
(***************************************************************************)
MaxBuffers == 2

MaxDraws == 2

\* the first arguments of a draw call: a canvas there is, or no canvas
DrawTargets == {CanvasValue(ref) : ref \in 1..Len(canvases)} \cup {NULL_VALUE}

\* coordinates inside a MaxDim x MaxDim canvas, whole and fractional
InsideCoordinates ==
  {<<Num(x), Num(y)>> : x \in 0..(MaxDim - 1), y \in 0..(MaxDim - 1)}
  \cup {<<makeNumber(Rat(3, 2)), makeNumber(Rat(1, 2))>>}

\* coordinates outside every canvas, not finite, not numbers, or missing
OutsideCoordinates ==
  {<<Num(0 - 1), Num(0)>>, <<Num(0), makeNumber(Rat(0 - 1, 2))>>, <<Num(MaxDim), Num(0)>>,
   <<Num(0), makeNumber(Infinity)>>, <<makeNumber(NaN), Num(0)>>, <<NULL_VALUE, Num(0)>>,
   <<Num(0), makeString("0")>>, <<Num(0)>>}

GoodChannels ==
  {<<Num(9), Num(8), Num(7)>>,
   <<Num(300), Num(0 - 20), makeNumber(Rat(638, 5)), makeNumber(Rat(1, 2))>>}

\* channels with a value that is no number, or with blue missing
BadChannels ==
  {<<makeString("1"), Num(2), Num(3)>>, <<Num(1), NULL_VALUE, Num(3)>>, <<Num(1), Num(2)>>,
   <<Num(1), Num(2), Num(3), NULL_VALUE>>}

\* the arguments after the first of a setPixel call
PixelArguments ==
  {coordinates \o channels :
     coordinates \in InsideCoordinates, channels \in GoodChannels \cup BadChannels}
  \cup {coordinates \o channels :
          coordinates \in OutsideCoordinates, channels \in {<<Num(9), Num(8), Num(7)>>}}

\* canvas(w, h)
NewCanvas ==
  /\ Len(canvases) < MaxBuffers
  /\ \E w \in 1..MaxDim, h \in 1..MaxDim :
       /\ Commit(canvas(Host, <<Num(w), Num(h)>>))
       /\ last' = [op |-> "canvas", args |-> <<Num(w), Num(h)>>]
  /\ UNCHANGED <<program, pc>>

\* setPixel(target, ...rest)
DrawPixel ==
  /\ canvases # <<>>
  /\ pc < MaxDraws
  /\ \E target \in DrawTargets, rest \in PixelArguments :
       /\ Commit(setPixel(Host, <<target>> \o rest))
       /\ last' = [op |-> "setPixel", args |-> <<target>> \o rest]
  /\ pc' = pc + 1
  /\ UNCHANGED program

\* fillCanvas(target, ...channels)
DrawFill ==
  /\ canvases # <<>>
  /\ pc < MaxDraws
  /\ \E target \in DrawTargets, channels \in GoodChannels \cup BadChannels :
       /\ Commit(fillCanvas(Host, <<target>> \o channels))
       /\ last' = [op |-> "fillCanvas", args |-> <<target>> \o channels]
  /\ pc' = pc + 1
  /\ UNCHANGED program

NextDraw == NewCanvas \/ DrawPixel \/ DrawFill

SpecDraw == InitHost /\ [][NextDraw]_vars

\* C25: through every canvas, setPixel and fillCanvas call, failing or not,
\* every buffer keeps its width and height, its bytes are width * height * 4
\* integers in 0..255, and no buffer goes away; the buffer canvas(w, h) has
\* just created has these dimensions and every pixel of it is (0, 0, 0, 255)
C25_BufferShape ==
  [][/\ Len(canvases') >= Len(canvases)
     /\ \A i \in DOMAIN canvases :
          /\ canvases'[i].width = canvases[i].width
          /\ canvases'[i].height = canvases[i].height
     /\ \A i \in DOMAIN canvases' :
          /\ Len(canvases'[i].pixels) = canvases'[i].width * canvases'[i].height * 4
          /\ \A j \in DOMAIN canvases'[i].pixels : canvases'[i].pixels[j] \in 0..255
     /\ last'.op = "canvas" =>
          /\ error' = NoError
          /\ canvases' = Append(canvases,
               [width |-> last'.args[1].num.n, height |-> last'.args[2].num.n,
                pixels |-> [j \in 1..(last'.args[1].num.n * last'.args[2].num.n * 4)
                              |-> IF j % 4 = 0 THEN 255 ELSE 0]])]_vars

\* the second of two canvases has been filled after a setPixel on the first
C25_Witness ==
  /\ last.op = "fillCanvas"
  /\ last.args[1] = CanvasValue(2)
  /\ error = NoError
  /\ pc = 2
  /\ canvases[1].width = 1 /\ canvases[1].height = 2
  /\ canvases[1].pixels = <<0, 0, 0, 255, 9, 8, 7, 255>>
  /\ canvases[2].width = 2 /\ canvases[2].height = 1
  /\ canvases[2].pixels = <<255, 0, 128, 1, 255, 0, 128, 1>>

(***************************************************************************)
(* C26: what a successful draw call changes.                               *)
(***************************************************************************)
\* the four bytes a draw call with these channel arguments stores
DrawnPixel(channels) ==
  [c \in 1..4 |-> IF c <= Len(channels) THEN RoundedClamped(channels[c].num) ELSE 255]

\* everything but the canvases and the returned value is as before
OnlyCanvases ==
  /\ envs' = envs
  /\ iterators' = iterators
  /\ console' = console
  /\ methodRegistry' = methodRegistry
  /\ calls' = calls

\* C26: a setPixel(buf, x, y, r, g, b, a?) that returns normally stores the
\* four channels at the bytes (floor(y) * width + floor(x)) * 4 .. + 3 of buf
\* and changes no other byte of buf, no other buffer and no binding of an
\* environment; a fillCanvas that returns normally stores the four channels
\* in every pixel of buf and changes nothing else; both return buf
C26_DrawFrame ==
  [][(last'.op \in {"setPixel", "fillCanvas"} /\ error' = NoError) =>
       LET ref == last'.args[1].ref
           width == canvases[ref].width
       IN  /\ OnlyCanvases
           /\ value' = last'.args[1]
           /\ \A other \in DOMAIN canvases : other # ref => canvases'[other] = canvases[other]
           /\ canvases'[ref].width = width
           /\ canvases'[ref].height = canvases[ref].height
           /\ last'.op = "fillCanvas" =>
                canvases'[ref].pixels
                  = [j \in DOMAIN canvases[ref].pixels |->
                       DrawnPixel(SubSeq(last'.args, 2, Len(last'.args)))[((j - 1) % 4) + 1]]
           /\ last'.op = "setPixel" =>
                /\ last'.args[2].num.d > 0
                /\ last'.args[3].num.d > 0
                /\ canvases'[ref].pixels
                     = [j \in DOMAIN canvases[ref].pixels |->
                          IF (j - 1) \div 4
                               = FloorOf(last'.args[3].num) * width + FloorOf(last'.args[2].num)
                          THEN DrawnPixel(SubSeq(last'.args, 4, Len(last'.args)))[((j - 1) % 4) + 1]
                          ELSE canvases[ref].pixels[j]]]_vars

\* setPixel with a NaN x coordinate has returned normally and the buffer,
\* filled before, is as it was
C26_Witness ==
  /\ last.op = "setPixel"
  /\ last.args[2] = makeNumber(NaN)
  /\ error = NoError
  /\ value = CanvasValue(1)
  /\ canvases[1].pixels = <<255, 0, 128, 1>>

(***************************************************************************)
(* C27: what a failing draw call changes.                                  *)
(***************************************************************************)
\* the coordinate is a number whose floor is in 0..(size - 1), that is, a
\* finite number from 0 up to but not size, or it is NaN
InBounds(coordinate, size) ==
  NumIsNaN(coordinate.num)
    \/ /\ coordinate.num.d > 0
       /\ 0 <= coordinate.num.n
       /\ coordinate.num.n < size * coordinate.num.d

\* the error of a draw call with these arguments, or NoError: the checks in
\* the order of the arguments, the bounds after the coordinates
DrawFailure(op, args) ==
  LET Nth(i) == OrNull(Arg(args, i))
      first == IF op = "setPixel" THEN 4 ELSE 2
      buffer == canvases[Nth(1).ref]
  IN  IF Nth(1).kind # "canvas"
      THEN (IF op = "setPixel" THEN "setPixel expects a canvas as the first argument"
            ELSE "fillCanvas expects a canvas")
      ELSE IF op = "setPixel" /\ Nth(2).kind # "number" THEN "setPixel expects an x coordinate"
      ELSE IF op = "setPixel" /\ Nth(3).kind # "number" THEN "setPixel expects a y coordinate"
      ELSE IF op = "setPixel" /\ ~(InBounds(Nth(2), buffer.width) /\ InBounds(Nth(3), buffer.height))
      THEN "setPixel coordinate is out of bounds"
      ELSE IF Nth(first).kind # "number" THEN op \o " expects a red channel value"
      ELSE IF Nth(first + 1).kind # "number" THEN op \o " expects a green channel value"
      ELSE IF Nth(first + 2).kind # "number" THEN op \o " expects a blue channel value"
      ELSE IF Len(args) >= first + 3 /\ Nth(first + 3).kind # "number"
      THEN op \o " expects an alpha channel value"
      ELSE NoError

C27_WitnessBounds ==
  /\ last.op = "setPixel"
  /\ last.args[2] = Num(MaxDim)
  /\ error = "setPixel coordinate is out of bounds"
  /\ canvases[1].pixels = <<9, 8, 7, 255>>

\* fillCanvas has failed at a missing blue channel
C27_WitnessFill ==
  /\ last.op = "fillCanvas"
  /\ last.args = <<CanvasValue(1), Num(1), Num(2)>>
  /\ error = "fillCanvas expects a blue channel value"
  /\ canvases[1].pixels = <<9, 8, 7, 255>>

(***************************************************************************)
(* C28: closures created in a for.  In a loop-closure program the loop     *)
(* environment is created second.                                          *)
(***************************************************************************)
\* the environment a closure bound in the global environment closes over
ClosureOf(name) == envs[GlobalEnv].values[name].closure

\* the environment of the iteration that created the closure: the parent of
\* the environment of the if branch
IterationOf(name) == envs[ClosureOf(name)].parent

\* C28: the loop variable is bound once, in the loop environment all
\* iterations share: closures created in different iterations read, after
\* the loop, the value of the last step.  What the body binds with let is
\* bound anew in every iteration: closures of different iterations read and
\* write different bindings of t, closures of one iteration the same one.
C28_LoopVariableShared ==
  program.label = "loop-closure" =>
    LET input == program.input
        calls_f == IF pc >= 6 THEN 2 ELSE pc - 4
    IN  /\ error = NoError
        /\ pc >= 4 =>
             /\ envs[2] = [parent |-> GlobalEnv, values |-> "i" :> Num(input.end)]
             /\ envs[IterationOf("f")].parent = 2
             /\ envs[IterationOf("g")].parent = 2
             /\ "i" \notin DOMAIN envs[IterationOf("f")].values
             /\ "i" \notin DOMAIN envs[IterationOf("g")].values
             /\ IterationOf("f") = IterationOf("g") <=> input.a = input.b
             /\ envs[IterationOf("f")].values["t"] = Num(10 * input.a + calls_f)
             /\ input.a # input.b => envs[IterationOf("g")].values["t"] = Num(10 * input.b)
        /\ pc \in 5..6 => value = Num(input.end + 10 * input.a + (pc - 4))
        /\ pc = 7 => value = Num(input.end + 10 * input.b + (IF input.a = input.b THEN 2 ELSE 0))

C28_Witness ==
  /\ program.label = "loop-closure"
  /\ program.input = [end |-> 4, a |-> 1, b |-> 3]
  /\ pc = 7
  /\ value = Num(34)
  /\ envs[IterationOf("f")].values["t"] = Num(12)

C28_WitnessSameIteration ==
  /\ program.label = "loop-closure"
  /\ program.input = [end |-> 3, a |-> 2, b |-> 2]
  /\ pc = 7
  /\ value = Num(25)

(***************************************************************************)
(* C29: a range iterator is used up.  In a for program the first for runs  *)
(* over the iterator bound to r, and so does the second.                   *)
(***************************************************************************)
\* C29: the iterator of a range is one stateful value: the for over r steps
\* the iterator r is bound to, each run of the body one step further, and
\* nothing sets it back.  After the first for has run to the done step, a
\* second for over r finds it done at once: its body never runs, it yields
\* null, and the iterator is where the first for left it.
C29_IteratorUsedUp ==
  program.label = "for" =>
    LET input == program.input
        n == ForSteps(input)
        r == envs[GlobalEnv].values["r"]
    IN  /\ pc >= 4 => r = IteratorValue(1) /\ Len(iterators) = 1
        /\ pc = 4 => iterators[1].current = Int2Num(input.start)
        /\ pc >= 5 => iterators[1].current = Int2Num(ForStep(input, n + 1))
        /\ pc = 8 =>
             /\ error = NoError
             /\ value = NULL_VALUE
             /\ envs[GlobalEnv].values["log"] = makeString(ForLog(input, n))
             /\ Len(envs) = 2 + n + 1
             /\ envs[Len(envs)] = [parent |-> GlobalEnv, values |-> "j" :> NULL_VALUE]

C29_Witness ==
  /\ program.label = "for"
  /\ program.input = [start |-> 1, end |-> 3, inclusive |-> TRUE]
  /\ pc = 8
  /\ value = NULL_VALUE
  /\ envs[GlobalEnv].values["log"] = makeString("123")
  /\ iterators[1].current = Int2Num(4)

C29_WitnessDescending ==
  /\ program.label = "for"
  /\ program.input = [start |-> 4, end |-> 2, inclusive |-> FALSE]
  /\ pc = 8
  /\ value = NULL_VALUE
  /\ envs[GlobalEnv].values["log"] = makeString("43")
  /\ iterators[1].current = Int2Num(2)

(***************************************************************************)
(* SpecRuntime: in one process, the host creates up to MaxEnvs global      *)
(* environments and, in any order with that, runs programs of one infix    *)
(* expression against any of them (index.ts, evaluateSource with an        *)
(* environment).  last keeps the latest operation.                         *)
(***************************************************************************)
\* the operators that create nothing
RuntimeOperators == Operators \ {"rangeInclusive"}

RuntimeOperands == {operand \in Operands : operand.kind \in {"null", "number", "string", "boolean"}}

\* createGlobalEnvironment()
CreateGlobalEnvironment ==
  /\ Len(envs) < MaxEnvs
  /\ Commit([createGlobalEnvironment(Host) EXCEPT !.value = NULL_VALUE])
  /\ last' = [op |-> "createGlobalEnvironment", env |-> Len(envs) + 1]
  /\ UNCHANGED <<program, pc>>

\* run(program, env) for the program left operator right
RunOperator ==
  /\ \E env \in 1..Len(envs), left \in RuntimeOperands, right \in RuntimeOperands,
        operator \in RuntimeOperators :
       /\ Commit(evaluateStatement(Host, Expr(Op(left.expression, operator, right.expression)),
                                   env))
       /\ last' = [op |-> "run", env |-> env,
                   statement |-> Expr(Op(left.expression, operator, right.expression))]
  /\ UNCHANGED <<program, pc>>

NextRuntime == CreateGlobalEnvironment \/ RunOperator

SpecRuntime == InitHost /\ [][NextRuntime]_vars

(***************************************************************************)
(* C30: the operator registry after more than one createGlobalEnvironment. *)
(***************************************************************************)
\* the process after its first createGlobalEnvironment call
FirstRuntime == createGlobalEnvironment(Fresh)

\* C30: whatever number of createGlobalEnvironment calls and program runs
\* came before, in whatever order, the registry holds the entries it held
\* after the first call, for the same kinds and names and with the same
\* functions; a further call adds one environment with the bindings of the
\* first and changes no other; and an operator of a program run against any
\* of the environments gives what it gives in a process that has only ever
\* created the first
C30_RegistryIdempotent ==
  [][/\ methodRegistry' = FirstRuntime.methodRegistry
     /\ last'.op = "createGlobalEnvironment" =>
          /\ envs' = Append(envs, FirstRuntime.envs[GlobalEnv])
          /\ error' = NoError
     /\ last'.op = "run" =>
          /\ envs' = envs
          /\ value' = evaluateStatement(FirstRuntime, last'.statement, GlobalEnv).value
          /\ error' = evaluateStatement(FirstRuntime, last'.statement, GlobalEnv).error]_vars

\* 6 plus 2 has run against the first of three environments
C30_Witness ==
  /\ Len(envs) = MaxEnvs
  /\ last.op = "run"
  /\ last.env = GlobalEnv
  /\ last.statement = Expr(Op(NumberLiteral(6), "plus", NumberLiteral(2)))
  /\ error = NoError
  /\ value = Num(8)

\* an operator the registry does not have has failed after a second call
C30_WitnessUnknown ==
  /\ Len(envs) = 2
  /\ last.op = "run"
  /\ last.statement = Expr(Op(StringLiteral("ab"), "minus", NumberLiteral(2)))
  /\ error = "Unknown operator minus for string"

====
